---- MODULE Spec2Model ----
(***************************************************************************)
(* Vector-field compute core of LiziEngine: the stencil update, the        *)
(* pattern generators, the singularity detector and the marker tracker,    *)
(* as a state machine over one grid, one configuration and one marker      *)
(* list.                                                                   *)
(*                                                                         *)
(* Numbers.  The program computes in IEEE floating point.  The model       *)
(* computes in exact arithmetic: a number is a finite sum of rational      *)
(* multiples of square roots of square-free integers, kept in a canonical  *)
(* form so that two numbers are equal exactly when their representations   *)
(* are.  Floating-point rounding is therefore NOT modelled: every          *)
(* statement checked here is a statement about the algorithm in real       *)
(* arithmetic.                                                             *)
(***************************************************************************)
EXTENDS Integers, Sequences, FiniteSets, TLC

(***************************************************************************)
(* Rationals: <<n, d>> with d > 0 and gcd(|n|, d) = 1.                      *)
(***************************************************************************)
Abs(n) == IF n < 0 THEN -n ELSE n

RECURSIVE Gcd(_, _)
Gcd(a, b) == IF b = 0 THEN a ELSE Gcd(b, a % b)

Q(n, d) ==
    LET s == IF d < 0 THEN -1 ELSE 1
        g == Gcd(Abs(n), Abs(d))
    IN  <<(s * n) \div g, (s * d) \div g>>

QI(n) == <<n, 1>>
QZero == <<0, 1>>
QOne == <<1, 1>>
\* sums and products cancel common factors first, to keep the integers small
QAdd(a, b) ==
    LET g == Gcd(a[2], b[2])
    IN  Q(a[1] * (b[2] \div g) + b[1] * (a[2] \div g), (a[2] \div g) * b[2])
QNeg(a) == <<-a[1], a[2]>>
QSub(a, b) == QAdd(a, QNeg(b))
QMul(a, b) ==
    LET g1 == Gcd(Abs(a[1]), b[2])
        g2 == Gcd(Abs(b[1]), a[2])
    IN  IF a[1] = 0 \/ b[1] = 0 THEN <<0, 1>>
        ELSE <<(a[1] \div g1) * (b[1] \div g2), (a[2] \div g2) * (b[2] \div g1)>>
QDiv(a, b) == Q(a[1] * b[2], a[2] * b[1])
QLess(a, b) ==
    LET g == Gcd(a[2], b[2])
    IN  a[1] * (b[2] \div g) < b[1] * (a[2] \div g)
QLeq(a, b) == ~QLess(b, a)
QSign(a) == IF a[1] > 0 THEN 1 ELSE IF a[1] < 0 THEN -1 ELSE 0
QMax(a, b) == IF QLess(a, b) THEN b ELSE a
QMin(a, b) == IF QLess(b, a) THEN b ELSE a
\* floor of a rational (\div rounds towards minus infinity)
QFloor(a) == a[1] \div a[2]

(***************************************************************************)
(* Integer square roots and square-free decomposition.                     *)
(***************************************************************************)
RECURSIVE IsqrtFrom(_, _)
\* Newton's iteration from an upper estimate x >= floor(sqrt(n)), n >= 1
IsqrtFrom(n, x) ==
    LET y == (x + n \div x) \div 2
    IN  IF y >= x THEN x ELSE IsqrtFrom(n, y)
\* floor(sqrt(n)), n >= 0
Isqrt(n) == IF n = 0 THEN 0 ELSE IsqrtFrom(n, n)

RECURSIVE SqPartFrom(_, _)
SqPartFrom(n, i) == IF i <= 1 THEN 1
                    ELSE IF n % (i * i) = 0 THEN i ELSE SqPartFrom(n, i - 1)
\* the largest s with s*s dividing n, n >= 1
SqPart(n) == SqPartFrom(n, Isqrt(n))

(***************************************************************************)
(* Reals of the model: a sequence of terms <<k, q>> read as the sum of     *)
(* q * sqrt(k), k square-free and strictly increasing along the sequence,  *)
(* q a non-zero rational.  << >> is zero, << <<1, q>> >> is the rational q. *)
(***************************************************************************)
RZero == << >>
RQ(q) == IF q[1] = 0 THEN << >> ELSE << <<1, q>> >>
RI(n) == RQ(QI(n))
RFrac(n, d) == RQ(Q(n, d))
ROne == RI(1)

RECURSIVE RAdd(_, _)
RAdd(a, b) ==
    IF a = << >> THEN b
    ELSE IF b = << >> THEN a
    ELSE IF a[1][1] < b[1][1] THEN <<a[1]>> \o RAdd(Tail(a), b)
    ELSE IF b[1][1] < a[1][1] THEN <<b[1]>> \o RAdd(a, Tail(b))
    ELSE LET q == QAdd(a[1][2], b[1][2])
         IN  IF q[1] = 0 THEN RAdd(Tail(a), Tail(b))
             ELSE << <<a[1][1], q>> >> \o RAdd(Tail(a), Tail(b))

\* q * r, q rational
RECURSIVE RScaleTerms(_, _)
RScaleTerms(q, r) ==
    IF r = << >> THEN << >>
    ELSE << <<r[1][1], QMul(q, r[1][2])>> >> \o RScaleTerms(q, Tail(r))
RScale(q, r) == IF q[1] = 0 THEN << >> ELSE RScaleTerms(q, r)
RNeg(r) == RScale(QI(-1), r)
RSub(a, b) == RAdd(a, RNeg(b))
\* r / q, q a non-zero rational
RDivQ(r, q) == RScale(QDiv(QOne, q), r)

\* q1*sqrt(k1) * q2*sqrt(k2), k1 and k2 square-free
TermMul(s, t) ==
    LET g == Gcd(s[1], t[1])
    IN  << <<(s[1] \div g) * (t[1] \div g), QMul(QI(g), QMul(s[2], t[2]))>> >>

RECURSIVE RMulTerm(_, _)
RMulTerm(s, b) == IF b = << >> THEN << >>
                  ELSE RAdd(TermMul(s, b[1]), RMulTerm(s, Tail(b)))
RECURSIVE RMul(_, _)
RMul(a, b) == IF a = << >> THEN << >>
              ELSE RAdd(RMulTerm(a[1], b), RMul(Tail(a), b))

\* sqrt(q) for a rational q >= 0: sqrt(n/d) = (a/(b*k2)) * sqrt(k1*k2)
\* where n = a*a*k1 and d = b*b*k2
RSqrtQ(q) ==
    IF q[1] = 0 THEN << >>
    ELSE LET a == SqPart(q[1])
             b == SqPart(q[2])
             k1 == q[1] \div (a * a)
             k2 == q[2] \div (b * b)
         IN  << <<k1 * k2, Q(a, b * k2)>> >>


\* Rational brackets of sqrt(k), k > 1 square-free, from the continued
\* fraction of sqrt(k): consecutive convergents lie on opposite sides of
\* sqrt(k).  h/kq is the convergent of index n, hp/kp the one before it;
\* the expansion stops before a numerator exceeds cap.  The result is
\* <<below, above>>, each a pair <<numerator, denominator>>.
RECURSIVE SqrtBracketFrom(_, _, _, _, _, _, _, _, _, _, _)
SqrtBracketFrom(k, a0, m, d, a, hp, kp, h, kq, n, cap) ==
    LET m2 == d * a - m
        d2 == (k - m2 * m2) \div d
        a2 == (a0 + m2) \div d2
    IN  IF n >= 1 /\ h > (cap - hp) \div a2
        THEN IF n % 2 = 0 THEN << <<h, kq>>, <<hp, kp>> >>
             ELSE << <<hp, kp>>, <<h, kq>> >>
        ELSE SqrtBracketFrom(k, a0, m2, d2, a2, h, kq, a2 * h + hp, a2 * kq + kp,
                             n + 1, cap)
SqrtBracket(k, cap) ==
    SqrtBracketFrom(k, Isqrt(k), 0, 1, Isqrt(k), 1, 0, Isqrt(k), 1, 0, cap)

\* Fixed point: a number x is enclosed between integers counting units of
\* 1/Scale.  ScaledFloor(num, den) is floor(num * Scale / den) for
\* num >= 0 and den > 0, by long division so that every intermediate stays
\* below IntCap.
Scale == 1000000
IntCap == 2000000000
RECURSIVE ScaledDigits(_, _, _, _)
ScaledDigits(acc, rem, den, unit) ==
    IF unit = 1 THEN acc
    ELSE ScaledDigits(acc * 10 + (rem * 10) \div den, (rem * 10) % den, den,
                      unit \div 10)
ScaledFloor(num, den) == ScaledDigits(num \div den, num % den, den, Scale)

\* the bracket of sqrt(t[1]) used for the term t = <<k, <<n, d>>>>: its
\* numerators times |n| and its denominators times 10 * d stay below IntCap
TermBracket(t) ==
    LET byNum == IntCap \div Abs(t[2][1])
        byDen == (IntCap \div 10) \div t[2][2]
    IN  SqrtBracket(t[1], IF byNum < byDen THEN byNum ELSE byDen)

\* integer bounds of |q| * sqrt(k) * Scale for the term t = <<k, q>>
TermAbsLow(t) ==
    IF t[1] = 1 THEN ScaledFloor(Abs(t[2][1]), t[2][2])
    ELSE LET lo == TermBracket(t)[1]
         IN  ScaledFloor(Abs(t[2][1]) * lo[1], t[2][2] * lo[2])
TermAbsHigh(t) ==
    IF t[1] = 1 THEN ScaledFloor(Abs(t[2][1]), t[2][2]) + 1
    ELSE LET hi == TermBracket(t)[2]
         IN  ScaledFloor(Abs(t[2][1]) * hi[1], t[2][2] * hi[2]) + 1
TermLow(t) == IF t[2][1] > 0 THEN TermAbsLow(t) ELSE -TermAbsHigh(t)
TermHigh(t) == IF t[2][1] > 0 THEN TermAbsHigh(t) ELSE -TermAbsLow(t)
RECURSIVE RLow(_)
RLow(r) == IF r = << >> THEN 0 ELSE TermLow(r[1]) + RLow(Tail(r))
RECURSIVE RHigh(_)
RHigh(r) == IF r = << >> THEN 0 ELSE TermHigh(r[1]) + RHigh(Tail(r))

\* the sign of a sum of two terms, exactly: compare the squares
RSignTwo(r) ==
    LET s1 == QSign(r[1][2])
        s2 == QSign(r[2][2])
        m1 == QMul(QI(r[1][1]), QMul(r[1][2], r[1][2]))
        m2 == QMul(QI(r[2][1]), QMul(r[2][2], r[2][2]))
    IN  IF s1 = s2 THEN s1
        ELSE IF QLess(m2, m1) THEN s1 ELSE s2

\* the sign of a sum of two or more terms, read off its enclosure.  A sum
\* of two terms too close to zero for the enclosure is decided exactly; a
\* longer one has no value here, and the evaluation stops with an error
\* instead of guessing.
RSignAt(r) ==
    IF RLow(r) > 0 THEN 1
    ELSE IF RHigh(r) < 0 THEN -1
    ELSE IF Len(r) = 2 THEN RSignTwo(r)
    ELSE CHOOSE s \in {} : TRUE

\* the sign of a real (a canonical non-empty sum is never zero)
RSign(r) ==
    IF r = << >> THEN 0
    ELSE IF Len(r) = 1 THEN QSign(r[1][2])
    ELSE RSignAt(r)
RLess(a, b) == RSign(RSub(a, b)) < 0
RLeq(a, b) == RSign(RSub(a, b)) <= 0
RMax(a, b) == IF RLess(a, b) THEN b ELSE a
RMin(a, b) == IF RLess(b, a) THEN b ELSE a

\* vectors <<vx, vy>> of reals
VZero == <<RZero, RZero>>
VAdd(u, v) == <<RAdd(u[1], v[1]), RAdd(u[2], v[2])>>
VScale(q, v) == <<RScale(q, v[1]), RScale(q, v[2])>>
VDivQ(v, q) == <<RDivQ(v[1], q), RDivQ(v[2], q)>>

(***************************************************************************)
(* Grids.  A grid is the record [h, w, v]: v maps the index <<y, x>>       *)
(* (row-major, as grid[y, x]) to the vector <<vx, vy>> of that cell.       *)
(* NoneGrid stands for a grid argument that is Python's None, NotArray for  *)
(* any other argument that is no ndarray.  An optional argument is << >>   *)
(* (None) or <<value>>.                                                    *)
(***************************************************************************)
None == << >>
Some(x) == <<x>>
NoneGrid == [kind |-> "None"]
NotArray == [kind |-> "other"]
IsArray(g) == g.kind = "ndarray"

Cells(h, w) == (0..(h - 1)) \X (0..(w - 1))
At(g, y, x) == g.v[<<y, x>>]
InBounds(g, x, y) == 0 <= x /\ x < g.w /\ 0 <= y /\ y < g.h

\* the cell of row-major position i
CellOf(g, i) == <<i \div g.w, i % g.w>>

\* a call's outcome: a returned value, or a raised exception
Return(val) == [kind |-> "return", val |-> val]
Raise(exc) == [kind |-> "raise", exc |-> exc]

\* create_vector_grid(width, height, default), width and height >= 1
create_vector_grid(width, height, default) ==
    LET zeros == [c \in Cells(height, width) |-> VZero]
    IN  [kind |-> "ndarray", h |-> height, w |-> width,
         v |-> IF default # <<QZero, QZero>>
               THEN [c \in Cells(height, width) |-> <<RQ(default[1]), RQ(default[2])>>]
               ELSE zeros]

(***************************************************************************)
(* The configuration a call reads from config_manager: the weights are     *)
(* rationals, the other three booleans.                                    *)
(***************************************************************************)
DefaultConfig ==
    [self_weight |-> QOne, neighbor_weight |-> Q(1, 10),
     enable_average |-> FALSE, enable_normalization |-> FALSE,
     include_self |-> TRUE]

\* include_self as the two stencil operations resolve it
ResolveIncludeSelf(cfg, include_self) ==
    IF include_self = None THEN cfg.include_self ELSE include_self[1]

(***************************************************************************)
(* sum_adjacent_vectors                                                    *)
(***************************************************************************)
\* the neighbour offsets (dx, dy), in the order the loop visits them
neighbors == << <<0, -1>>, <<0, 1>>, <<-1, 0>>, <<1, 0>> >>

\* SelfTerm with the neighbour weight applied to the self cell
SelfTerm_NeighborWeight(g, cfg, x, y, inc) ==
    IF inc /\ InBounds(g, x, y)
    THEN [sum |-> VScale(cfg.neighbor_weight, At(g, y, x)), count |-> 1]
    ELSE [sum |-> VZero, count |-> 0]

\* the accumulator [sum, count] after the optional self term
SelfTerm(g, cfg, x, y, inc) ==
    IF inc /\ InBounds(g, x, y)
    THEN [sum |-> VScale(cfg.self_weight, At(g, y, x)), count |-> 1]
    ELSE [sum |-> VZero, count |-> 0]

\* NeighborStep counting a neighbour outside the grid as a term
NeighborStep_CountsOutside(g, cfg, x, y, acc, d) ==
    LET nx == x + d[1]
        ny == y + d[2]
    IN  IF InBounds(g, nx, ny)
        THEN [sum |-> VAdd(acc.sum, VScale(cfg.neighbor_weight, At(g, ny, nx))),
              count |-> acc.count + 1]
        ELSE [acc EXCEPT !.count = @ + 1]

\* one iteration of the loop over the neighbours
NeighborStep(g, cfg, x, y, acc, d) ==
    LET nx == x + d[1]
        ny == y + d[2]
    IN  IF InBounds(g, nx, ny)
        THEN [sum |-> VAdd(acc.sum, VScale(cfg.neighbor_weight, At(g, ny, nx))),
              count |-> acc.count + 1]
        ELSE acc

RECURSIVE NeighborLoop(_, _, _, _, _, _)
NeighborLoop(g, cfg, x, y, acc, i) ==
    IF i > Len(neighbors) THEN acc
    ELSE NeighborLoop(g, cfg, x, y, NeighborStep(g, cfg, x, y, acc, neighbors[i]), i + 1)

\* the accumulator when the loop has ended
Accumulate(g, cfg, x, y, inc) ==
    NeighborLoop(g, cfg, x, y, SelfTerm(g, cfg, x, y, inc), 1)

\* the division by the number of terms, when averaging is on
Average(cfg, acc) ==
    IF cfg.enable_average /\ acc.count > 0
    THEN VDivQ(acc.sum, QI(acc.count))
    ELSE acc.sum

sum_adjacent_vectors(g, cfg, x, y, include_self) ==
    IF g = NoneGrid THEN Return(VZero)
    ELSE IF ~IsArray(g) THEN Raise("TypeError")
    ELSE Return(Average(cfg, Accumulate(g, cfg, x, y,
                                        ResolveIncludeSelf(cfg, include_self))))

(***************************************************************************)
(* update_grid_with_adjacent_sum                                           *)
(***************************************************************************)
\* np.pad(grid, ((1, 1), (1, 1), (0, 0)), mode='constant'): padded[py, px]
\* is grid[py - 1, px - 1] inside and zero on the one-cell border
\* np.pad with ones around the grid
padded_grid_Ones(g) ==
    [kind |-> "ndarray", h |-> g.h + 2, w |-> g.w + 2,
     v |-> [c \in Cells(g.h + 2, g.w + 2) |->
              IF InBounds(g, c[2] - 1, c[1] - 1) THEN At(g, c[1] - 1, c[2] - 1)
              ELSE <<ROne, ROne>>]]

\* np.pad(grid, ((1, 1), (1, 1), (0, 0)), mode='constant'): zeros around
padded_grid(g) ==
    [kind |-> "ndarray", h |-> g.h + 2, w |-> g.w + 2,
     v |-> [c \in Cells(g.h + 2, g.w + 2) |->
              IF InBounds(g, c[2] - 1, c[1] - 1) THEN At(g, c[1] - 1, c[2] - 1)
              ELSE VZero]]

\* the four slices of the padded grid, at result index (y, x)
up_neighbors(p, cfg, y, x) == VScale(cfg.neighbor_weight, At(p, y + 2, x + 1))
down_neighbors(p, cfg, y, x) == VScale(cfg.neighbor_weight, At(p, y, x + 1))
left_neighbors(p, cfg, y, x) == VScale(cfg.neighbor_weight, At(p, y + 1, x + 2))
right_neighbors(p, cfg, y, x) == VScale(cfg.neighbor_weight, At(p, y + 1, x))

\* result after the neighbour sum and the optional self contribution
WeightedSum(g, cfg, inc, y, x) ==
    LET p == padded_grid(g)
        nb == VAdd(VAdd(VAdd(up_neighbors(p, cfg, y, x), down_neighbors(p, cfg, y, x)),
                        left_neighbors(p, cfg, y, x)),
                   right_neighbors(p, cfg, y, x))
    IN  IF inc THEN VAdd(nb, VScale(cfg.self_weight, At(g, y, x))) ELSE nb

\* EdgesTouched with one subtraction per axis
EdgesTouched_OncePerAxis(g, y, x) ==
    (IF y = 0 \/ y = g.h - 1 THEN 1 ELSE 0) + (IF x = 0 \/ x = g.w - 1 THEN 1 ELSE 0)

\* the number of edge rows/columns an index lies on; row 0 and row -1 (and
\* column 0 and column -1) are the same row (column) of a grid one cell
\* high (wide), and are then both subtracted
EdgesTouched(g, y, x) ==
    (IF y = 0 THEN 1 ELSE 0) + (IF y = g.h - 1 THEN 1 ELSE 0)
    + (IF x = 0 THEN 1 ELSE 0) + (IF x = g.w - 1 THEN 1 ELSE 0)

\* neighbor_count of the averaging branch (computed, then left unused)
neighbor_count(g, inc, y, x) ==
    4 - EdgesTouched(g, y, x) + (IF inc THEN 1 ELSE 0)

\* AverageBranch with the division by neighbor_count applied
AverageBranch_Divides(g, inc, y, x, result) ==
    IF neighbor_count(g, inc, y, x) = 0 THEN result
    ELSE VDivQ(result, QI(neighbor_count(g, inc, y, x)))

\* the branch taken when enable_average is on: the division is commented
\* out in the source, the result is left as it is
AverageBranch(g, inc, y, x, result) == result

\* weight_sum of the normalisation branch, after np.maximum(weight_sum, 0.1)
weight_sum(g, cfg, inc, y, x) ==
    LET all4 == QMul(QI(4), cfg.neighbor_weight)
        edged == QSub(all4, QMul(QI(EdgesTouched(g, y, x)), cfg.neighbor_weight))
        withSelf == IF inc THEN QAdd(edged, cfg.self_weight) ELSE edged
    IN  QMax(withSelf, Q(1, 10))

NormalizationBranch(g, cfg, inc, y, x, result) ==
    VDivQ(result, weight_sum(g, cfg, inc, y, x))

\* the value written to cell (y, x)
UpdatedCell(g, cfg, inc, y, x) ==
    LET result == WeightedSum(g, cfg, inc, y, x)
    IN  IF cfg.enable_average THEN AverageBranch(g, inc, y, x, result)
        ELSE IF cfg.enable_normalization THEN NormalizationBranch(g, cfg, inc, y, x, result)
        ELSE result

\* update_grid_with_adjacent_sum as a double loop that writes each cell as
\* soon as it is computed, so that later cells read updated neighbours
RECURSIVE InPlaceSweep(_, _, _, _)
InPlaceSweep(g, cfg, inc, i) ==
    IF i >= g.h * g.w THEN g
    ELSE LET c == CellOf(g, i)
             g2 == [g EXCEPT !.v[c] = UpdatedCell(g, cfg, inc, c[1], c[2])]
         IN  IF g2.h = g.h THEN InPlaceSweep(g2, cfg, inc, i + 1) ELSE g2
update_grid_InPlace(g, cfg, include_self) ==
    IF ~IsArray(g) THEN g
    ELSE InPlaceSweep(g, cfg, ResolveIncludeSelf(cfg, include_self), 0)

\* the grid after the call (grid[:] = result), and the value returned
update_grid_with_adjacent_sum(g, cfg, include_self) ==
    IF ~IsArray(g) THEN g
    ELSE LET inc == ResolveIncludeSelf(cfg, include_self)
         IN  [g EXCEPT !.v = [c \in Cells(g.h, g.w) |->
                                UpdatedCell(g, cfg, inc, c[1], c[2])]]

(***************************************************************************)
(* create_radial_pattern and create_tangential_pattern                     *)
(***************************************************************************)
\* 1 / r for a real of one term, r = q*sqrt(k): sqrt(k) / (q*k)
RInv(r) == << <<r[1][1], QDiv(QOne, QMul(r[1][2], QI(r[1][1])))>> >>

\* center when the argument is None: (w // 2, h // 2)
DefaultCenter(g) == <<QI(g.w \div 2), QI(g.h \div 2)>>
\* the default radius by true division, min(w, h) / 4
DefaultRadius_TrueDivision(g) == Q(IF g.w < g.h THEN g.w ELSE g.h, 4)

\* radius when the argument is None: min(w, h) // 4
DefaultRadius(g) == QI((IF g.w < g.h THEN g.w ELSE g.h) \div 4)

PatternCenter(g, center) == IF center = None THEN DefaultCenter(g) ELSE center[1]
PatternRadius(g, radius) == IF radius = None THEN DefaultRadius(g) ELSE radius[1]

\* dist = np.sqrt(dx**2 + dy**2), dx and dy rational
Dist(dx, dy) ==
    IF dy[1] = 0 THEN RQ(<<Abs(dx[1]), dx[2]>>)       \* sqrt(dx**2 + 0) = |dx|
    ELSE IF dx[1] = 0 THEN RQ(<<Abs(dy[1]), dy[2]>>)
    ELSE RSqrtQ(QAdd(QMul(dx, dx), QMul(dy, dy)))

\* the mask without the test that excludes the center
Mask_CenterIncluded(dist, radius) == RLess(dist, RQ(radius))

\* mask = (dist < radius) & (dist > 0)
Mask(dist, radius) == RLess(dist, RQ(radius)) /\ RSign(dist) > 0

\* An angle is kept as the unit vector <<cos, sin>> of its direction.
\* np.arctan2(dy, dx); arctan2(0, 0) is the angle 0
arctan2(dy, dx) ==
    IF dx[1] = 0 /\ dy[1] = 0 THEN <<ROne, RZero>>
    ELSE LET inv == RInv(Dist(dx, dy))
         IN  <<RScale(dx, inv), RScale(dy, inv)>>
\* angle + np.pi/2
PlusHalfPi(angle) == <<RNeg(angle[2]), angle[1]>>
cos(angle) == angle[1]
sin(angle) == angle[2]

\* vec_magnitude = magnitude * (1.0 - (dist / radius)), radius # 0
vec_magnitude(magnitude, dist, radius) ==
    RScale(magnitude, RSub(ROne, RDivQ(dist, radius)))

\* the radial angle with the arguments of arctan2 exchanged
RadialAngle_Swapped(dy, dx) == arctan2(dx, dy)

\* the angle of the radial pattern at offset (dx, dy)
RadialAngle(dy, dx) == arctan2(dy, dx)
\* the tangential angle turned by -pi/2 instead of +pi/2
TangentialAngle_Clockwise(dy, dx) ==
    <<arctan2(dy, dx)[2], RNeg(arctan2(dy, dx)[1])>>

\* the angle of the tangential pattern at offset (dx, dy)
TangentialAngle(dy, dx) == PlusHalfPi(arctan2(dy, dx))

\* the vector (vx, vy) computed for a cell under the mask
PatternVector(angle, magnitude, dist, radius) ==
    LET m == vec_magnitude(magnitude, dist, radius)
    IN  <<RMul(m, cos(angle)), RMul(m, sin(angle))>>

\* the pattern vector added to what the cell holds
RadialCell_Added(g, c, radius, magnitude, y, x) ==
    LET dx == QSub(QI(x), c[1])
        dy == QSub(QI(y), c[2])
        dist == Dist(dx, dy)
    IN  IF Mask(dist, radius)
        THEN LET v == PatternVector(RadialAngle(dy, dx), magnitude, dist, radius)
             IN  <<RAdd(At(g, y, x)[1], v[1]), RAdd(At(g, y, x)[2], v[2])>>
        ELSE At(g, y, x)

RadialCell(g, c, radius, magnitude, y, x) ==
    LET dx == QSub(QI(x), c[1])
        dy == QSub(QI(y), c[2])
        dist == Dist(dx, dy)
    IN  IF Mask(dist, radius)
        THEN PatternVector(RadialAngle(dy, dx), magnitude, dist, radius)
        ELSE At(g, y, x)

TangentialCell(g, c, radius, magnitude, y, x) ==
    LET dx == QSub(QI(x), c[1])
        dy == QSub(QI(y), c[2])
        dist == Dist(dx, dy)
    IN  IF Mask(dist, radius)
        THEN PatternVector(TangentialAngle(dy, dx), magnitude, dist, radius)
        ELSE At(g, y, x)

\* the outcome of the call; a returned grid is the argument, mutated in place
create_radial_pattern(g, center, radius, magnitude) ==
    IF ~IsArray(g) THEN Raise("TypeError")
    ELSE LET c == PatternCenter(g, center)
             r == PatternRadius(g, radius)
         IN  Return([g EXCEPT !.v = [i \in Cells(g.h, g.w) |->
                                       RadialCell(g, c, r, magnitude, i[1], i[2])]])

create_tangential_pattern(g, center, radius, magnitude) ==
    IF ~IsArray(g) THEN Raise("TypeError")
    ELSE LET c == PatternCenter(g, center)
             r == PatternRadius(g, radius)
         IN  Return([g EXCEPT !.v = [i \in Cells(g.h, g.w) |->
                                       TangentialCell(g, c, r, magnitude, i[1], i[2])]])

(***************************************************************************)
(* MarkerSystem.add_vector_at_position                                     *)
(***************************************************************************)
\* int(q): truncation towards zero
PyInt(q) == IF q[1] >= 0 THEN q[1] \div q[2] ELSE -((-q[1]) \div q[2])
\* round(q): to the nearest integer, a tie to the even one
PyRound(q) ==
    LET f == QFloor(q)
        twice == QSub(QMul(QI(2), q), QI(2 * f))
    IN  IF twice[1] < twice[2] THEN f
        ELSE IF twice[1] > twice[2] THEN f + 1
        ELSE IF f % 2 = 0 THEN f ELSE f + 1
IMax(a, b) == IF a < b THEN b ELSE a
IMin(a, b) == IF a < b THEN a ELSE b
\* x + dx as it is, not brought back into the grid
ClampToGrid_Unclamped(q, n) == q

\* max(0.0, min(n - 1.0, float(q)))
ClampToGrid(q, n) == QMax(QZero, QMin(QI(n - 1), q))

\* factor = 1.0 - dist / radius, never cut off at zero
Falloff_Unclipped(dist, radius) == RSub(ROne, RDivQ(dist, radius))

\* factor = max(0.0, 1.0 - dist / radius), radius # 0
Falloff(dist, radius) ==
    LET f == RSub(ROne, RDivQ(dist, radius))
    IN  IF RSign(f) > 0 THEN f ELSE RZero

\* the grid after the call; x, y, vx, vy and radius are rationals
add_vector_at_position(g, x, y, vx, vy, radius) ==
    IF ~IsArray(g) THEN g
    ELSE LET cx == PyRound(ClampToGrid(x, g.w))
             cy == PyRound(ClampToGrid(y, g.h))
             sx == IMax(0, PyInt(QSub(QI(cx), radius)))
             ex == IMin(g.w - 1, PyInt(QAdd(QI(cx), radius)))
             sy == IMax(0, PyInt(QSub(QI(cy), radius)))
             ey == IMin(g.h - 1, PyInt(QAdd(QI(cy), radius)))
             Cell(yy, xx) ==
                 IF sy <= yy /\ yy <= ey /\ sx <= xx /\ xx <= ex /\ radius[1] # 0
                 THEN LET factor == Falloff(Dist(QI(xx - cx), QI(yy - cy)), radius)
                      IN  VAdd(At(g, yy, xx),
                               <<RScale(vx, factor), RScale(vy, factor)>>)
                 ELSE At(g, yy, xx)  \* outside the box, or ZeroDivisionError swallowed
         IN  [g EXCEPT !.v = [i \in Cells(g.h, g.w) |-> Cell(i[1], i[2])]]

(***************************************************************************)
(* find_vector_centers                                                     *)
(***************************************************************************)
Vx(g, y, x) == At(g, y, x)[1]
Vy(g, y, x) == At(g, y, x)[2]
Half(r) == RDivQ(r, QI(2))

\* magnitude[y, x] > q for a rational q >= 0, magnitude = sqrt(vx**2 + vy**2)
MagnitudeAbove(g, y, x, q) ==
    RLess(RQ(QMul(q, q)),
          RAdd(RMul(Vx(g, y, x), Vx(g, y, x)), RMul(Vy(g, y, x), Vy(g, y, x))))

\* An integer index that is out of range raises IndexError: vy[1, ...] and
\* vy[-2, ...] need two rows, vx[..., 1] and vx[..., -2] two columns.
DivRaises(g) == g.h < 2 \/ g.w < 2

\* div with every difference halved, the one-sided ones too
div_AllHalved(g, y, x) ==
    LET h == g.h
        w == g.w
        innerX == 1 <= x /\ x <= w - 2
        innerY == 1 <= y /\ y <= h - 2
    IN  IF innerY /\ innerX
        THEN RAdd(Half(RSub(Vx(g, y, x + 1), Vx(g, y, x - 1))),
                  Half(RSub(Vy(g, y + 1, x), Vy(g, y - 1, x))))
        ELSE IF y = 0 /\ innerX
        THEN RAdd(Half(RSub(Vx(g, 0, x + 1), Vx(g, 0, x - 1))),
                  Half(RSub(Vy(g, 1, x), Vy(g, 0, x))))
        ELSE IF y = h - 1 /\ innerX
        THEN RAdd(Half(RSub(Vx(g, h - 1, x + 1), Vx(g, h - 1, x - 1))),
                  Half(RSub(Vy(g, h - 1, x), Vy(g, h - 2, x))))
        ELSE IF innerY /\ x = 0
        THEN RAdd(Half(RSub(Vx(g, y, 1), Vx(g, y, 0))),
                  Half(RSub(Vy(g, y + 1, 0), Vy(g, y - 1, 0))))
        ELSE IF innerY /\ x = w - 1
        THEN RAdd(Half(RSub(Vx(g, y, w - 1), Vx(g, y, w - 2))),
                  Half(RSub(Vy(g, y + 1, w - 1), Vy(g, y - 1, w - 1))))
        ELSE RZero

\* div after the five slice assignments, for a grid with h >= 2 and w >= 2
div(g, y, x) ==
    LET h == g.h
        w == g.w
        innerX == 1 <= x /\ x <= w - 2
        innerY == 1 <= y /\ y <= h - 2
    IN  IF innerY /\ innerX
        THEN RAdd(Half(RSub(Vx(g, y, x + 1), Vx(g, y, x - 1))),
                  Half(RSub(Vy(g, y + 1, x), Vy(g, y - 1, x))))
        ELSE IF y = 0 /\ innerX
        THEN RAdd(Half(RSub(Vx(g, 0, x + 1), Vx(g, 0, x - 1))),
                  RSub(Vy(g, 1, x), Vy(g, 0, x)))
        ELSE IF y = h - 1 /\ innerX
        THEN RAdd(Half(RSub(Vx(g, h - 1, x + 1), Vx(g, h - 1, x - 1))),
                  RSub(Vy(g, h - 1, x), Vy(g, h - 2, x)))
        ELSE IF innerY /\ x = 0
        THEN RAdd(RSub(Vx(g, y, 1), Vx(g, y, 0)),
                  Half(RSub(Vy(g, y + 1, 0), Vy(g, y - 1, 0))))
        ELSE IF innerY /\ x = w - 1
        THEN RAdd(RSub(Vx(g, y, w - 1), Vx(g, y, w - 2)),
                  Half(RSub(Vy(g, y + 1, w - 1), Vy(g, y - 1, w - 1))))
        ELSE RZero

\* the largest (sign 1) or smallest (sign -1) value of div over the cells
\* of row-major index lo..hi, by halving the range
RECURSIVE Extreme(_, _, _, _)
Extreme(g, lo, hi, sign) ==
    IF lo = hi THEN div(g, CellOf(g, lo)[1], CellOf(g, lo)[2])
    ELSE LET mid == (lo + hi) \div 2
             a == Extreme(g, lo, mid, sign)
             b == Extreme(g, mid + 1, hi, sign)
         IN  IF sign > 0 THEN RMax(a, b) ELSE RMin(a, b)
\* np.max(div) and np.min(div)
max_div(g) == Extreme(g, 0, g.h * g.w - 1, 1)
min_div(g) == Extreme(g, 0, g.h * g.w - 1, -1)

\* np.sqrt((x - cx)**2 + (y - cy)**2) < min_distance
TooClose(x, y, c, min_distance) ==
    RLess(Dist(QI(x - c[1]), QI(y - c[2])), RQ(min_distance))

\* is_far_enough comparing with the most recently accepted center only
is_far_enough_LastOnly(centers, x, y, min_distance) ==
    centers = << >> \/ ~TooClose(x, y, centers[Len(centers)], min_distance)

\* is_far_enough after the loop over the centers accepted so far
is_far_enough(centers, x, y, min_distance) ==
    \A k \in 1..Len(centers) : ~TooClose(x, y, centers[k], min_distance)

\* the cells in row-major order, as <<y, x>>
RowMajor(g) == [i \in 1..(g.h * g.w) |-> CellOf(g, i - 1)]

\* np.where(div > bound) (sign 1) or np.where(div < bound) (sign -1): the
\* selected points in row-major order
WherePoints(g, sign, bound) ==
    SelectSeq(RowMajor(g),
              LAMBDA c : IF sign > 0 THEN RLess(bound, div(g, c[1], c[2]))
                         ELSE RLess(div(g, c[1], c[2]), bound))

\* the body of the loop over the points, for the point (y, x)
VisitPoint(g, y, x, min_distance, centers) ==
    IF MagnitudeAbove(g, y, x, Q(1, 10)) /\ is_far_enough(centers, x, y, min_distance)
    THEN Append(centers, <<x, y>>)
    ELSE centers

RECURSIVE ScanPoints(_, _, _, _, _)
ScanPoints(g, points, i, min_distance, centers) ==
    IF i > Len(points) THEN centers
    ELSE LET next == VisitPoint(g, points[i][1], points[i][2], min_distance, centers)
         IN  IF Len(next) >= 0
             THEN ScanPoints(g, points, i + 1, min_distance, next)
             ELSE next

\* the centers after the pass over the points of positive divergence
SourcePass(g, threshold, min_distance) ==
    IF RLess(RQ(threshold), max_div(g))
    THEN ScanPoints(g, WherePoints(g, 1, RScale(threshold, max_div(g))), 1,
                    min_distance, << >>)
    ELSE << >>

\* the centers after the pass over the points of negative divergence
SinkPass(g, threshold, min_distance, centers) ==
    IF RLess(min_div(g), RQ(QNeg(threshold)))
    THEN ScanPoints(g, WherePoints(g, -1, RScale(threshold, min_div(g))), 1,
                    min_distance, centers)
    ELSE centers

find_vector_centers(g, threshold, min_distance) ==
    IF ~IsArray(g) THEN Return(<< >>)
    ELSE IF DivRaises(g) THEN Raise("IndexError")
    ELSE Return(SinkPass(g, threshold, min_distance,
                         SourcePass(g, threshold, min_distance)))

(***************************************************************************)
(* MarkerSystem.  A marker is a Python dict, shared by reference between   *)
(* self.markers, the list kept by the state manager and any list a caller  *)
(* got from get_markers: the tracker is the record                         *)
(*   heap    the dicts created so far, in creation order; a dict is known  *)
(*           by its index in heap,                                         *)
(*   markers self.markers, a sequence of indices into heap,                *)
(*   stored  what the state manager holds under "markers": None or a list, *)
(*   held    the list a caller got from the last get_markers, or None,     *)
(*   pruned  the dicts update_markers has dropped so far,                  *)
(*   writes  the number of create_radial_pattern calls update_markers has  *)
(*           made so far.                                                  *)
(* The x, y and mag of a dict are rationals, or NaN for the float nan.      *)
(***************************************************************************)
NaN == <<0, 0>>
IsNaN(q) == q[2] = 0

\* the rational value of a real that is rational; no value otherwise
AsQ(r) ==
    IF r = << >> THEN QZero
    ELSE IF Len(r) = 1 /\ r[1][1] = 1 THEN r[1][2]
    ELSE CHOOSE q \in {} : TRUE

\* np.sqrt(r) for a real r >= 0 with a square root among the reals of the
\* model: a rational, or a + b*sqrt(k) with a*a - b*b*k the square of a
\* rational c, whose root is sqrt((a + c)/2) +- sqrt((a - c)/2)
\* (a square denominator d*d of a is taken out first, sqrt(r) being
\* sqrt(d*d*r)/d, to keep the integers small)
RSqrtDenest(r) ==
    LET a == r[1][2]
        b == r[2][2]
        c == RSqrtQ(QSub(QMul(a, a), QMul(QI(r[2][1]), QMul(b, b))))
        big == RSqrtQ(QDiv(QAdd(a, AsQ(c)), QI(2)))
        small == RSqrtQ(QDiv(QSub(a, AsQ(c)), QI(2)))
    IN  IF b[1] > 0 THEN RAdd(big, small) ELSE RSub(big, small)
RSqrt(r) ==
    IF r = << >> THEN << >>
    ELSE IF Len(r) = 1 /\ r[1][1] = 1 THEN RSqrtQ(r[1][2])
    ELSE IF Len(r) = 2 /\ r[1][1] = 1 THEN
        LET den == r[1][2][2]
            d == Isqrt(den)
        IN  IF d * d = den
            THEN RScale(Q(1, d), RSqrtDenest(RScale(QI(den), r)))
            ELSE RSqrtDenest(r)
    ELSE CHOOSE q \in {} : TRUE

\* the attributes of a MarkerSystem object: those __init__ sets and the
\* methods of the class
MarkerSystemAttributes ==
    {"app_core", "markers", "add_marker", "clear_markers", "get_markers",
     "update_markers", "add_vector_at_position", "_sync_to_state_manager"}

\* marker_system.<name>(...) for a name the object does not have: the
\* attribute lookup raises before anything is called
MissingMethod(name) ==
    IF name \in MarkerSystemAttributes THEN Return(None)
    ELSE Raise("AttributeError")

NewTracker ==
    [heap |-> << >>, markers |-> << >>, stored |-> None, held |-> None,
     pruned |-> {}, writes |-> 0]

\* _sync_to_state_manager: the state manager gets a copy of the list
sync_to_state_manager(t) == [t EXCEPT !.stored = Some(t.markers)]

\* add_marker(x, y, mag): a new dict, appended, then synchronised
add_marker(t, x, y, mag) ==
    LET marker == [x |-> x, y |-> y, mag |-> mag]
        heap == Append(t.heap, marker)
    IN  sync_to_state_manager([t EXCEPT !.heap = heap,
                                        !.markers = Append(t.markers, Len(heap))])

\* clear_markers() leaving the state manager's list as it was
clear_markers_Unsynced(t) == [t EXCEPT !.markers = << >>]

\* clear_markers()
clear_markers(t) == sync_to_state_manager([t EXCEPT !.markers = << >>])

\* get_markers(): list(self.markers), a new list of the same dicts
get_markers(t) == t.markers

\* the indices a[start:stop] selects on an axis of length n, start >= 0: a
\* negative stop counts from the end
SliceRange(start, stop, n) ==
    LET last == IF stop < 0 THEN IMax(0, stop + n) ELSE IMin(stop, n)
    IN  start..(last - 1)

\* the cells of grid[sy:ey+1, sx:ex+1] around (cx, cy), in row-major order
Neighborhood(g, cx, cy, neighborhood) ==
    LET sx == IMax(0, cx - neighborhood)
        ex == IMin(g.w - 1, cx + neighborhood)
        sy == IMax(0, cy - neighborhood)
        ey == IMin(g.h - 1, cy + neighborhood)
        rows == SliceRange(sy, ey + 1, g.h)
        cols == SliceRange(sx, ex + 1, g.w)
    IN  SelectSeq(RowMajor(g), LAMBDA c : c[1] \in rows /\ c[2] \in cols)

\* mags: np.sqrt(vx**2 + vy**2) of one cell
mags(v) == RSqrt(RAdd(RMul(v[1], v[1]), RMul(v[2], v[2])))

\* np.sum over the cells of the window: <<sum(vx * mags), sum(vy * mags),
\* sum(mags)>>
RECURSIVE WindowSums(_, _, _)
WindowSums(g, cells, i) ==
    IF i > Len(cells) THEN <<RZero, RZero, RZero>>
    ELSE LET v == g.v[cells[i]]
             rest == WindowSums(g, cells, i + 1)
         IN  <<RAdd(RMul(v[1], mags(v)), rest[1]),
               RAdd(RMul(v[2], mags(v)), rest[2]),
               RAdd(mags(v), rest[3])>>

\* the marker is kept without sampling only when the slice is empty
Deferred_EmptyOnly(count, sum_mag) == count = 0

\* "if count == 0 or sum_mag == 0": nothing to sample, the marker is kept
Deferred(count, sum_mag) == count = 0 \/ sum_mag = RZero

\* no marker is ever removed for a low average magnitude
Fades_Never(avg_mag, clear_threshold) == FALSE

\* "if avg_mag < clear_threshold": the marker is removed
Fades(avg_mag, clear_threshold) == RLess(avg_mag, RQ(clear_threshold))

\* The marker at <<new_x, new_y>>, its pattern written around where it was
MarkerPlaced_AroundOld(g, m, new_x, new_y) ==
    [kind |-> "move", x |-> new_x, y |-> new_y,
     grid |-> create_radial_pattern(g, Some(<<m.x, m.y>>), Some(QI(2)),
                                    m.mag).val]

\* The marker at <<new_x, new_y>>, its radial pattern written around it
MarkerPlaced(g, m, new_x, new_y) ==
    [kind |-> "move", x |-> new_x, y |-> new_y,
     grid |-> create_radial_pattern(g, Some(<<new_x, new_y>>), Some(QI(2)),
                                    m.mag).val]

\* The marker moves: new_x, new_y, and the pattern written around them
MarkerMoved(g, m, mean_vx, mean_vy, move_factor) ==
    LET dx == AsQ(RScale(move_factor, mean_vx))
        dy == AsQ(RScale(move_factor, mean_vy))
    IN  MarkerPlaced(g, m, ClampToGrid(QAdd(m.x, dx), g.w),
                     ClampToGrid(QAdd(m.y, dy), g.h))

\* The marker with the sums over its window of count cells
MarkerSampled(g, m, count, sums, move_factor, clear_threshold) ==
    IF Deferred(count, sums[3])
    THEN [kind |-> "keep", grid |-> g]
    ELSE IF Fades(RDivQ(sums[3], QI(count)), clear_threshold)   \* avg_mag
    THEN [kind |-> "prune", grid |-> g]
    ELSE MarkerMoved(g, m, RDivQ(sums[1], QI(count)),           \* mean_vx
                     RDivQ(sums[2], QI(count)), move_factor)    \* mean_vy

\* The marker with the cells of its window
MarkerWindow(g, m, cells, move_factor, clear_threshold) ==
    MarkerSampled(g, m, Len(cells), WindowSums(g, cells, 1), move_factor,
                  clear_threshold)

\* The body of the loop of update_markers for the dict m on the grid g: what
\* becomes of the marker ("keep" unmoved, "prune", "move" to <<x, y>>, or
\* "raise" out of the call) and the grid afterwards.
MarkerStep(g, m, neighborhood, move_factor, clear_threshold) ==
    IF IsNaN(m.x) \/ IsNaN(m.y)
    THEN [kind |-> "raise", exc |-> "ValueError", grid |-> g]  \* round(nan)
    ELSE MarkerWindow(g, m,
                      Neighborhood(g, PyRound(m.x), PyRound(m.y), neighborhood),
                      move_factor, clear_threshold)

\* The state of the loop after the step r, the pattern written by a marker
\* that moved being lost to the markers after it
StepTaken_GridDropped(st, id, r) ==
    IF r.kind = "raise" THEN [st EXCEPT !.raised = Some(r.exc)]
    ELSE IF r.kind = "prune"
    THEN [st EXCEPT !.dropped = st.dropped \cup {id}]
    ELSE IF r.kind = "keep"
    THEN [st EXCEPT !.new_markers = Append(st.new_markers, id)]
    ELSE [st EXCEPT !.heap[id].x = r.x,
                    !.heap[id].y = r.y,
                    !.written = st.written + 1,
                    !.new_markers = Append(st.new_markers, id)]

\* The state of the loop after the step r for the dict id
StepTaken(st, id, r) ==
    IF r.kind = "raise" THEN [st EXCEPT !.raised = Some(r.exc)]
    ELSE IF r.kind = "prune"
    THEN [st EXCEPT !.dropped = st.dropped \cup {id}]
    ELSE IF r.kind = "keep"
    THEN [st EXCEPT !.new_markers = Append(st.new_markers, id)]
    ELSE [st EXCEPT !.grid = r.grid,
                    !.heap[id].x = r.x,
                    !.heap[id].y = r.y,
                    !.written = st.written + 1,
                    !.new_markers = Append(st.new_markers, id)]

\* The loop over self.markers from position i on.  st holds the heap, the
\* grid, new_markers, the dicts dropped, the number of patterns written and
\* the exception that ended the loop, if any.
RECURSIVE UpdateLoop(_, _, _, _, _, _)
UpdateLoop(st, ids, i, neighborhood, move_factor, clear_threshold) ==
    IF i > Len(ids) \/ st.raised # None THEN st
    ELSE UpdateLoop(StepTaken(st, ids[i],
                              MarkerStep(st.grid, st.heap[ids[i]], neighborhood,
                                         move_factor, clear_threshold)),
                    ids, i + 1, neighborhood, move_factor, clear_threshold)

\* The tracker and the grid once the loop over the list reloaded has ended in
\* st: an exception leaves the call before self.markers is assigned
UpdateEnded(t, reloaded, st) ==
    IF st.raised # None
    THEN [t |-> [t EXCEPT !.heap = st.heap, !.markers = reloaded,
                          !.writes = t.writes + st.written],
          grid |-> st.grid, out |-> Raise(st.raised[1])]
    ELSE [t |-> sync_to_state_manager(
                    [t EXCEPT !.heap = st.heap, !.markers = st.new_markers,
                              !.pruned = t.pruned \cup st.dropped,
                              !.writes = t.writes + st.written]),
          grid |-> st.grid, out |-> Return(None)]

\* The list the loop runs over: the state manager's, when it holds one
Reloaded(t) == IF t.stored # None THEN t.stored[1] ELSE t.markers

\* update_markers(grid, neighborhood, move_factor, clear_threshold): the
\* tracker and the grid after the call, and how the call ended
update_markers(t, g, neighborhood, move_factor, clear_threshold) ==
    IF ~IsArray(g) THEN [t |-> t, grid |-> g, out |-> Return(None)]
    ELSE UpdateEnded(t, Reloaded(t),
                     UpdateLoop([heap |-> t.heap, grid |-> g,
                                 new_markers |-> << >>, dropped |-> {},
                                 written |-> 0, raised |-> None],
                                Reloaded(t), 1, neighborhood, move_factor,
                                clear_threshold))

(***************************************************************************)
(* Bounds and input sets.                                                  *)
(***************************************************************************)
\* the largest side of a grid that carries a seeded blob
MaxDim == 3
\* the largest side of a uniform grid
MaxPlainDim == 8

\* the uniform vectors a grid is created with
Defaults == {<<QZero, QZero>>, <<QI(2), QI(-1)>>}
\* the blob a caller adds to a fresh grid: the vector, and the radii
SeedVector == <<QI(1), QI(3)>>
SeedRadii == {Q(1, 2), QI(2)}

PlainGrids ==
    {create_vector_grid(w, h, d) : w \in 1..MaxPlainDim, h \in 1..MaxPlainDim, d \in Defaults}

SeededGrids ==
    UNION {
        LET g == create_vector_grid(w, h, d)
        IN  {g} \cup {add_vector_at_position(g, QI(c[2]), QI(c[1]),
                                             SeedVector[1], SeedVector[2], r) :
                      c \in Cells(h, w), r \in SeedRadii}
        : w \in 1..MaxDim, h \in 1..MaxDim, d \in Defaults}

\* the weights (self_weight, neighbor_weight) a call may read
WeightPairs == {<<QOne, Q(1, 10)>>, <<QZero, QZero>>, <<Q(-1, 2), QI(2)>>}
\* include_self as passed, with the configured value beside it
IncludeSelfCases == {<<None, TRUE>>, <<None, FALSE>>,
                     <<Some(TRUE), FALSE>>, <<Some(FALSE), TRUE>>}

Config(wp, avg, norm, inc) ==
    [self_weight |-> wp[1], neighbor_weight |-> wp[2],
     enable_average |-> avg, enable_normalization |-> norm, include_self |-> inc]

\* what stands for the grid argument when it is no array: None, or an
\* object of another type
InvalidGrids == {NoneGrid, NotArray}
\* the sides a caller takes the grid to have when it picks coordinates
Wide(g) == IF IsArray(g) THEN g.w ELSE 1
High(g) == IF IsArray(g) THEN g.h ELSE 1

\* the pattern arguments
PatternCenters(g) ==
    {None, Some(<<QZero, QZero>>), Some(<<QOne, QOne>>),
     Some(<<QI(Wide(g) - 1), QI(High(g) - 1)>>), Some(<<Q(1, 2), QOne>>),
     Some(<<QI(-1), QZero>>)}
PatternRadii == {None, Some(QZero), Some(QI(-1)), Some(QOne), Some(Q(3, 2)), Some(QI(2))}
Magnitudes == {QOne, QI(-2)}

\* the all-zero grids of the detection scenario: every shape up to
\* MaxPlainDim, and the 64 x 64 grid
ScenarioGrids ==
    {create_vector_grid(w, h, <<QZero, QZero>>) : w \in 1..MaxPlainDim, h \in 1..MaxPlainDim}
        \cup {create_vector_grid(64, 64, <<QZero, QZero>>)}
\* the min_distance values of the scenario
ScenarioDistances == {QI(2), QI(5)}

\* the longest single-row or single-column grid the tracker works on
MaxRow == 4
\* the most dicts add_marker creates
MaxMarkers == 2
\* the most patterns update_markers is given the chance to write in one
\* behaviour: every pattern written is sampled by the next marker, and the
\* exact positions double in size with each
MaxWrites == 2

\* The grids of the tracker: one row or one column, empty, uniform, empty
\* but for a faint vector (of magnitude 1/2000) in the last cell, or empty
\* but for a radial pattern around the middle.  On such a grid every
\* magnitude is rational.
LineShapes == {<<n, 1>> : n \in 1..MaxRow} \cup {<<1, n>> : n \in 1..MaxRow}
LineGrids ==
    UNION {
        LET empty == create_vector_grid(s[1], s[2], <<QZero, QZero>>)
        IN  {empty,
             create_vector_grid(s[1], s[2], <<QOne, QZero>>),
             add_vector_at_position(empty, QI(s[1] - 1), QI(s[2] - 1),
                                    QZero, Q(-1, 2000), QOne),
             create_radial_pattern(empty, None, Some(QI(2)), QOne).val}
        : s \in LineShapes}

\* the arguments of add_marker: positions inside the grid, a position far
\* outside it, and a nan
MarkerPositions(g) ==
    {<<QZero, QZero>>, <<QI(g.w - 1), QI(g.h - 1)>>, <<Q(3, 2), Q(1, 2)>>,
     <<QI(-5), QZero>>, <<NaN, QZero>>}
MarkerMags == {QOne}
\* the arguments of update_markers
Neighborhoods == {1}
MoveFactors == {QOne, QI(-1)}
\* the grids on which a caller changes what get_markers gave it: uniform
\* rows
SnapshotGrids == {create_vector_grid(n, 1, <<QOne, QZero>>) : n \in 1..MaxRow}
\* the values a caller writes into a marker it holds
CallerValues == {QOne}
ClearThresholds == {Q(1, 1000), QOne}

\* the arguments of add_vector_at_position: positions inside the grid, on a
\* half, beyond the last column and far outside; radii positive, zero and
\* negative
VectorPositions(g) ==
    {<<QZero, QZero>>, <<QI(g.w - 1), QI(g.h - 1)>>, <<Q(1, 2), Q(3, 2)>>,
     <<Q(2 * g.w - 1, 2), QZero>>, <<QI(-3), QOne>>}
VectorRadii == {QOne, Q(3, 2), QI(2), Q(1, 2), QZero, QI(-1)}
VectorValues == {<<QOne, QZero>>, <<Q(-1, 2), QI(2)>>}

\* the mag arguments of create_tiny_vector
TinyMags == {QOne, Q(1, 2)}

\* The grids of the centred marker: empty, with sides of odd length, so
\* that the middle is a cell; the patterns placed around the middle (one of
\* radius 1 reaches no cell), and the half-widths of the window
CenteredSides == {3, 5}
CenteredGrids ==
    {create_vector_grid(w, h, <<QZero, QZero>>) : w \in CenteredSides, h \in CenteredSides}
CenteredRadii == {QOne, Q(5, 4), QI(2), QI(3)}
CenteredMagnitudes == {QOne, QI(-2), Q(1, 100)}
CenteredNeighborhoods == {1, 2}

\* the all-zero grids of every shape up to MaxDim
ZeroGrids ==
    {create_vector_grid(w, h, <<QZero, QZero>>) : w \in 1..MaxDim, h \in 1..MaxDim}

\* the detector's arguments
Thresholds == {QZero, Q(1, 10), Q(1, 2), Q(-1, 2)}
MinDistances == {QZero, QOne, QI(2), Q(5, 2)}

(***************************************************************************)
(* The state: the grid, the grid as it was when the last call was made,    *)
(* that call with its arguments and the configuration it read, what it     *)
(* returned or raised, and the marker tracker.                             *)
(***************************************************************************)
VARIABLES grid, pre, call, ret, tracker

vars == <<grid, pre, call, ret, tracker>>

NoCall == [op |-> "none"]
Ready == call = NoCall

InitWith(grids) ==
    /\ grid \in grids
    /\ pre = grid
    /\ call = NoCall
    /\ ret = Return(None)
    /\ tracker = NewTracker

Init == InitWith(SeededGrids \cup PlainGrids)
InitSeeded == InitWith(SeededGrids)
InitPlain == InitWith(PlainGrids)

\* sum_adjacent_vectors(grid, x, y, include_self): reads, returns a tuple
SumAdjacent ==
    \E x \in -1..Wide(grid), y \in -1..High(grid), ic \in IncludeSelfCases,
       wp \in WeightPairs, avg \in BOOLEAN :
        LET cfg == Config(wp, avg, FALSE, ic[2])
        IN  /\ Ready
            /\ call' = [op |-> "sum_adjacent_vectors", x |-> x, y |-> y,
                        include_self |-> ic[1], cfg |-> cfg]
            /\ ret' = sum_adjacent_vectors(grid, cfg, x, y, ic[1])
            /\ pre' = grid
            /\ UNCHANGED <<grid, tracker>>

\* update_grid_with_adjacent_sum(grid, include_self): rewrites the grid in
\* place and returns it
UpdateGrid ==
    \E ic \in IncludeSelfCases, wp \in WeightPairs, avg \in BOOLEAN, norm \in BOOLEAN :
        LET cfg == Config(wp, avg, norm, ic[2])
        IN  /\ Ready
            /\ call' = [op |-> "update_grid_with_adjacent_sum",
                        include_self |-> ic[1], cfg |-> cfg]
            /\ grid' = update_grid_with_adjacent_sum(grid, cfg, ic[1])
            /\ ret' = Return(grid')
            /\ pre' = grid
            /\ UNCHANGED tracker

\* the effect of a pattern call whose outcome is out
PatternEffect(out) ==
    /\ ret' = out
    /\ grid' = IF out.kind = "return" THEN out.val ELSE grid
    /\ pre' = grid
    /\ UNCHANGED tracker

CreateRadial ==
    \E center \in PatternCenters(grid), radius \in PatternRadii, magnitude \in Magnitudes :
        /\ Ready
        /\ call' = [op |-> "create_radial_pattern", center |-> center,
                    radius |-> radius, magnitude |-> magnitude]
        /\ PatternEffect(create_radial_pattern(grid, center, radius, magnitude))

CreateTangential ==
    \E center \in PatternCenters(grid), radius \in PatternRadii, magnitude \in Magnitudes :
        /\ Ready
        /\ call' = [op |-> "create_tangential_pattern", center |-> center,
                    radius |-> radius, magnitude |-> magnitude]
        /\ PatternEffect(create_tangential_pattern(grid, center, radius, magnitude))

\* find_vector_centers(grid, threshold, min_distance): reads, returns a list
FindCenters ==
    \E threshold \in Thresholds, min_distance \in MinDistances :
        /\ Ready
        /\ call' = [op |-> "find_vector_centers", threshold |-> threshold,
                    min_distance |-> min_distance]
        /\ ret' = find_vector_centers(grid, threshold, min_distance)
        /\ pre' = grid
        /\ UNCHANGED <<grid, tracker>>

\* create_radial_pattern on a fresh grid, centred, a quarter of the smaller
\* side as radius, magnitude 1.0
PlaceCenteredRadial ==
    LET center == Some(DefaultCenter(grid))
        radius == Some(Q(IF grid.w < grid.h THEN grid.w ELSE grid.h, 4))
    IN  /\ Ready
        /\ call' = [op |-> "create_radial_pattern", center |-> center,
                    radius |-> radius, magnitude |-> QOne]
        /\ PatternEffect(create_radial_pattern(grid, center, radius, QOne))

\* find_vector_centers on the grid a pattern call has returned
FindCentersAfter ==
    \E min_distance \in ScenarioDistances :
        /\ call.op = "create_radial_pattern"
        /\ ret.kind = "return"
        /\ call' = [op |-> "find_vector_centers", threshold |-> Q(1, 10),
                    min_distance |-> min_distance, after |-> call]
        /\ ret' = find_vector_centers(grid, Q(1, 10), min_distance)
        /\ pre' = grid
        /\ UNCHANGED <<grid, tracker>>

\* add_marker(x, y, mag)
AddMarker ==
    \E pos \in MarkerPositions(grid), mag \in MarkerMags :
        /\ Len(tracker.heap) < MaxMarkers
        /\ call' = [op |-> "add_marker", x |-> pos[1], y |-> pos[2], mag |-> mag,
                    before |-> tracker]
        /\ tracker' = add_marker(tracker, pos[1], pos[2], mag)
        /\ ret' = Return(None)
        /\ pre' = grid
        /\ UNCHANGED grid

\* clear_markers()
ClearMarkers ==
    /\ call' = [op |-> "clear_markers", before |-> tracker]
    /\ tracker' = clear_markers(tracker)
    /\ ret' = Return(None)
    /\ pre' = grid
    /\ UNCHANGED grid

\* get_markers(): the caller keeps the list it is given
GetMarkers ==
    /\ call' = [op |-> "get_markers", before |-> tracker]
    /\ tracker' = [tracker EXCEPT !.held = Some(get_markers(tracker))]
    /\ ret' = Return(get_markers(tracker))
    /\ pre' = grid
    /\ UNCHANGED grid

\* update_markers(grid, neighborhood, move_factor, clear_threshold)
UpdateMarkers ==
    \E neighborhood \in Neighborhoods, move_factor \in MoveFactors,
       clear_threshold \in ClearThresholds :
        LET r == update_markers(tracker, grid, neighborhood, move_factor,
                                clear_threshold)
        IN  /\ tracker.writes + Len(tracker.markers) <= MaxWrites
            /\ call' = [op |-> "update_markers", neighborhood |-> neighborhood,
                        move_factor |-> move_factor,
                        clear_threshold |-> clear_threshold, before |-> tracker]
            /\ tracker' = r.t
            /\ grid' = r.grid
            /\ ret' = r.out
            /\ pre' = grid

\* the caller deletes the first element of the list get_markers gave it
CallerRemoves ==
    /\ tracker.held # None
    /\ tracker.held[1] # << >>
    /\ call' = [op |-> "caller_remove", before |-> tracker]
    /\ tracker' = [tracker EXCEPT !.held = Some(Tail(tracker.held[1]))]
    /\ ret' = Return(None)
    /\ pre' = grid
    /\ UNCHANGED grid

\* the caller assigns to a key of a dict of the list get_markers gave it;
\* the dict is the one the tracker's own list holds
CallerSets ==
    \E field \in {"x", "y", "mag"}, value \in CallerValues :
        /\ tracker.held # None
        /\ tracker.held[1] # << >>
        /\ call' = [op |-> "caller_set", field |-> field, value |-> value,
                    before |-> tracker]
        /\ tracker' = [tracker EXCEPT !.heap[tracker.held[1][1]][field] = value]
        /\ ret' = Return(None)
        /\ pre' = grid
        /\ UNCHANGED grid

\* add_vector_at_position(grid, x, y, vx, vy, radius): changes the grid in
\* place, returns None
AddVectorAtPosition ==
    \E pos \in VectorPositions(grid), v \in VectorValues, radius \in VectorRadii :
        /\ Ready
        /\ call' = [op |-> "add_vector_at_position", x |-> pos[1], y |-> pos[2],
                    vx |-> v[1], vy |-> v[2], radius |-> radius]
        /\ grid' = add_vector_at_position(grid, pos[1], pos[2], v[1], v[2], radius)
        /\ ret' = Return(None)
        /\ pre' = grid
        /\ UNCHANGED tracker

\* marker_system.create_tiny_vector(grid, x, y, mag, vx, vy), as the mouse
\* handler of the UI calls it
CreateTinyVector ==
    \E pos \in VectorPositions(grid), v \in VectorValues, mag \in TinyMags :
        /\ Ready
        /\ call' = [op |-> "create_tiny_vector", x |-> pos[1], y |-> pos[2],
                    mag |-> mag, vx |-> v[1], vy |-> v[2]]
        /\ ret' = MissingMethod("create_tiny_vector")
        /\ pre' = grid
        /\ UNCHANGED <<grid, tracker>>

\* create_radial_pattern on an empty grid, around its middle cell
PlaceRadialAtMiddle ==
    \E radius \in CenteredRadii, magnitude \in CenteredMagnitudes :
        /\ Ready
        /\ call' = [op |-> "create_radial_pattern",
                    center |-> Some(DefaultCenter(grid)),
                    radius |-> Some(radius), magnitude |-> magnitude]
        /\ PatternEffect(create_radial_pattern(grid, Some(DefaultCenter(grid)),
                                               Some(radius), magnitude))

\* add_marker at the centre of the pattern just placed
AddMarkerAtCenter ==
    \E mag \in MarkerMags :
        /\ call.op = "create_radial_pattern"
        /\ call' = [op |-> "add_marker", x |-> call.center[1][1],
                    y |-> call.center[1][2], mag |-> mag, before |-> tracker,
                    pattern |-> call]
        /\ tracker' = add_marker(tracker, call.center[1][1], call.center[1][2], mag)
        /\ ret' = Return(None)
        /\ pre' = grid
        /\ UNCHANGED grid

\* the first update_markers call after the marker was added
UpdateCentered ==
    \E neighborhood \in CenteredNeighborhoods, move_factor \in MoveFactors,
       clear_threshold \in ClearThresholds :
        LET r == update_markers(tracker, grid, neighborhood, move_factor,
                                clear_threshold)
        IN  /\ call.op = "add_marker"
            /\ call' = [op |-> "update_markers", neighborhood |-> neighborhood,
                        move_factor |-> move_factor,
                        clear_threshold |-> clear_threshold, before |-> tracker,
                        pattern |-> call.pattern]
            /\ tracker' = r.t
            /\ grid' = r.grid
            /\ ret' = r.out
            /\ pre' = grid

\* np.zeros((height, width, 2)) raises ValueError for a negative dimension
\* and for no other
NegativeDimensions(width, height) == width < 0 \/ height < 0

\* create_vector_grid(width, height, default): returns a new grid
CreateVectorGrid ==
    \E width \in -1..MaxPlainDim, height \in -1..MaxPlainDim, default \in Defaults :
        /\ Ready
        /\ call' = [op |-> "create_vector_grid", width |-> width,
                    height |-> height, default |-> default]
        /\ ret' = IF NegativeDimensions(width, height) THEN Raise("ValueError")
                  ELSE Return(create_vector_grid(width, height, default))
        /\ grid' = IF NegativeDimensions(width, height) THEN grid
                   ELSE create_vector_grid(width, height, default)
        /\ pre' = grid
        /\ UNCHANGED tracker

\* update_grid_with_adjacent_sum on the grid an earlier call may have left
UpdateGridAgain ==
    \E ic \in IncludeSelfCases, wp \in WeightPairs, avg \in BOOLEAN, norm \in BOOLEAN :
        LET cfg == Config(wp, avg, norm, ic[2])
        IN  /\ call' = [op |-> "update_grid_with_adjacent_sum",
                        include_self |-> ic[1], cfg |-> cfg,
                        again |-> call.op = "update_grid_with_adjacent_sum"]
            /\ grid' = update_grid_with_adjacent_sum(grid, cfg, ic[1])
            /\ ret' = Return(grid')
            /\ pre' = grid
            /\ UNCHANGED tracker

NextStencil == SumAdjacent \/ UpdateGrid
NextPattern == CreateRadial \/ CreateTangential
NextCenters == FindCenters
NextScenario == PlaceCenteredRadial \/ FindCentersAfter
NextMarkers == AddMarker \/ ClearMarkers \/ UpdateMarkers
NextVector == AddVectorAtPosition
NextTinyVector == CreateTinyVector
NextCentered == PlaceRadialAtMiddle \/ AddMarkerAtCenter \/ UpdateCentered
NextCreate == CreateVectorGrid
NextRepeated == UpdateGridAgain
NextSnapshot ==
    AddMarker \/ GetMarkers \/ UpdateMarkers \/ CallerRemoves \/ CallerSets
Next == SumAdjacent \/ UpdateGrid \/ CreateRadial \/ CreateTangential \/ FindCenters

Spec == Init /\ [][Next]_vars
SpecStencil == InitSeeded /\ [][NextStencil]_vars
SpecPattern == InitSeeded /\ [][NextPattern]_vars
SpecDefaults == InitPlain /\ [][NextPattern]_vars
SpecCenters == InitSeeded /\ [][NextCenters]_vars
\* the detector on uniform grids of every shape up to MaxPlainDim
SpecUniformCenters == InitPlain /\ [][NextCenters]_vars
\* a centred radial pattern on an empty grid, then the detector
SpecScenario == InitWith(ScenarioGrids) /\ [][NextScenario]_vars
\* the tracker's own operations on a single row or column
SpecMarkers == InitWith(LineGrids) /\ [][NextMarkers]_vars
\* one add_vector_at_position call on a grid that holds vectors already
SpecVector == InitSeeded /\ [][NextVector]_vars
\* one create_tiny_vector call on a grid that holds vectors already
SpecTinyVector == InitSeeded /\ [][NextTinyVector]_vars
\* a radial pattern around the middle of an empty grid, a marker at its
\* centre, one update
SpecCentered == InitWith(CenteredGrids) /\ [][NextCentered]_vars
\* every operation of the calculator, given something that is no array
SpecInvalid == InitWith(InvalidGrids) /\ [][Next]_vars
\* one create_vector_grid call, no grid existing before
SpecCreate == InitWith({NoneGrid}) /\ [][NextCreate]_vars
\* update_grid_with_adjacent_sum, any number of times, from an all-zero grid
SpecZero == InitWith(ZeroGrids) /\ [][NextRepeated]_vars
\* the tracker and a caller that changes what get_markers gave it
SpecSnapshot == InitWith(SnapshotGrids) /\ [][NextSnapshot]_vars

(***************************************************************************)
(* Properties of the stencil operations.                                   *)
(***************************************************************************)
IsUpdate == call.op = "update_grid_with_adjacent_sum"
IsSum == call.op = "sum_adjacent_vectors"
\* include_self as the last call resolved it
CallIncludeSelf == IF call.include_self = None THEN call.cfg.include_self
                   ELSE call.include_self[1]
Interior(g, x, y) == 1 <= x /\ x <= g.w - 2 /\ 1 <= y /\ y <= g.h - 2
\* the 4-neighbours of (x, y) that lie in the grid, as <<x, y>>
NeighboursIn(g, x, y) ==
    {n \in {<<x, y - 1>>, <<x, y + 1>>, <<x - 1, y>>, <<x + 1, y>>} :
        InBounds(g, n[1], n[2])}
\* the grid value at (x, y), zero outside the grid
ValueOrZero(g, x, y) == IF InBounds(g, x, y) THEN At(g, y, x) ELSE VZero
\* self_weight * G[y, x] (if counted) + neighbor_weight * (the four
\* neighbours, an absent one being zero)
StencilSum(g, cfg, x, y, inc) ==
    VAdd(IF inc THEN VScale(cfg.self_weight, ValueOrZero(g, x, y)) ELSE VZero,
         VScale(cfg.neighbor_weight,
                VAdd(VAdd(ValueOrZero(g, x, y - 1), ValueOrZero(g, x, y + 1)),
                     VAdd(ValueOrZero(g, x - 1, y), ValueOrZero(g, x + 1, y)))))
\* the number of terms of that sum that lie in the grid
TermCount(g, x, y, inc) ==
    Cardinality(NeighboursIn(g, x, y)) + (IF inc /\ InBounds(g, x, y) THEN 1 ELSE 0)

\* C1: with enable_average and enable_normalization both off, the vector
\* update_grid_with_adjacent_sum writes to every cell (x, y) equals
\* sum_adjacent_vectors(G0, x, y, include_self) on the grid G0 as it was
\* before the call.
C1_UpdateEqualsPointSum ==
    (IsUpdate /\ ~call.cfg.enable_average /\ ~call.cfg.enable_normalization)
    => \A c \in Cells(pre.h, pre.w) :
          Return(At(grid, c[1], c[2]))
          = sum_adjacent_vectors(pre, call.cfg, c[2], c[1], call.include_self)

C1_Witness ==
    /\ IsUpdate /\ ~call.cfg.enable_average /\ ~call.cfg.enable_normalization
    /\ pre.h = 3 /\ pre.w = 3
    /\ call.cfg.neighbor_weight # QZero
    /\ At(grid, 1, 1) # At(pre, 1, 1)
    /\ At(grid, 0, 1) # At(pre, 0, 1)
    /\ At(pre, 0, 1) # VZero

\* C2: with enable_average off, for an interior cell (x, y),
\* sum_adjacent_vectors(G, x, y, include_self = true) returns
\* self_weight*G[y,x] + neighbor_weight*(G[y-1,x] + G[y+1,x] + G[y,x-1] + G[y,x+1]).
C2_InteriorPointSum ==
    (IsSum /\ ~call.cfg.enable_average /\ CallIncludeSelf
     /\ Interior(pre, call.x, call.y))
    => ret = Return(
          VAdd(VScale(call.cfg.self_weight, At(pre, call.y, call.x)),
               VScale(call.cfg.neighbor_weight,
                      VAdd(VAdd(At(pre, call.y - 1, call.x), At(pre, call.y + 1, call.x)),
                           VAdd(At(pre, call.y, call.x - 1), At(pre, call.y, call.x + 1))))))

C2_Witness ==
    /\ IsSum /\ ~call.cfg.enable_average /\ call.include_self = Some(TRUE)
    /\ Interior(pre, call.x, call.y)
    /\ call.cfg.self_weight # QZero /\ call.cfg.neighbor_weight # QZero
    /\ At(pre, call.y, call.x) # VZero
    /\ At(pre, call.y, call.x + 1) # At(pre, call.y, call.x)
    /\ ret.val # VZero

\* C3: in sum_adjacent_vectors a cell outside the grid (a neighbour, or the
\* self cell) and an excluded self cell contribute nothing and are not
\* counted; with enable_average on, the sum is divided by the number of
\* terms added, and is (0, 0) when that number is 0.
C3_OutOfBoundsAndAverage ==
    IsSum =>
        LET n == TermCount(pre, call.x, call.y, CallIncludeSelf)
            total == StencilSum(pre, call.cfg, call.x, call.y, CallIncludeSelf)
        IN  /\ ret.kind = "return"
            /\ (n = 0 => ret.val = VZero)
            /\ (~call.cfg.enable_average => ret.val = total)
            /\ (call.cfg.enable_average /\ n > 0 => ret.val = VDivQ(total, QI(n)))

C3_Witness ==
    /\ IsSum /\ call.cfg.enable_average /\ CallIncludeSelf
    /\ call.x = 0 /\ call.y = 0 /\ pre.w >= 2 /\ pre.h >= 2
    /\ TermCount(pre, 0, 0, TRUE) = 3
    /\ ret.val # VZero
    /\ ret.val # StencilSum(pre, call.cfg, 0, 0, TRUE)

\* C4: with enable_average on, update_grid_with_adjacent_sum divides by
\* nothing: every cell receives the weighted sum it receives with both flags
\* off, whatever enable_normalization is, so that the cell is count times
\* what sum_adjacent_vectors returns for it with averaging on.
C4_AverageBranchDoesNotDivide ==
    (IsUpdate /\ call.cfg.enable_average)
    => /\ grid = update_grid_with_adjacent_sum(
                    pre,
                    [call.cfg EXCEPT !.enable_average = FALSE,
                                     !.enable_normalization = FALSE],
                    call.include_self)
       /\ \A c \in Cells(pre.h, pre.w) :
            LET n == TermCount(pre, c[2], c[1], CallIncludeSelf)
                s == sum_adjacent_vectors(pre, call.cfg, c[2], c[1], call.include_self).val
            IN  /\ At(grid, c[1], c[2]) = VScale(QI(n), s)
                /\ At(grid, c[1], c[2]) = StencilSum(pre, call.cfg, c[2], c[1], CallIncludeSelf)

C4_Witness ==
    /\ IsUpdate /\ call.cfg.enable_average /\ call.cfg.enable_normalization
    /\ pre.h = 3 /\ pre.w = 3
    /\ At(grid, 1, 1) # VZero
    /\ At(grid, 1, 1)
       # sum_adjacent_vectors(pre, call.cfg, 1, 1, call.include_self).val
    /\ QAdd(call.cfg.self_weight, QMul(QI(4), call.cfg.neighbor_weight)) # QOne

\* C5: with enable_average off and enable_normalization on, every cell
\* receives its weighted sum divided by max(0.1, S), S = (self_weight if
\* include_self) + neighbor_weight * (the number of its 4-neighbours in the
\* grid), on grids of every size; the divisor is never below 0.1.
C5_Divisor(g, cfg, x, y, inc) ==
    QMax(Q(1, 10),
         QAdd(IF inc THEN cfg.self_weight ELSE QZero,
              QMul(cfg.neighbor_weight, QI(Cardinality(NeighboursIn(g, x, y))))))

C5_Normalization ==
    (IsUpdate /\ ~call.cfg.enable_average /\ call.cfg.enable_normalization)
    => \A c \in Cells(pre.h, pre.w) :
          /\ At(grid, c[1], c[2])
             = VDivQ(StencilSum(pre, call.cfg, c[2], c[1], CallIncludeSelf),
                     C5_Divisor(pre, call.cfg, c[2], c[1], CallIncludeSelf))
          /\ QLeq(Q(1, 10), weight_sum(pre, call.cfg, CallIncludeSelf, c[1], c[2]))

C5_Witness ==
    /\ IsUpdate /\ ~call.cfg.enable_average /\ call.cfg.enable_normalization
    /\ pre.h = 1 /\ pre.w = 3
    /\ call.cfg.neighbor_weight = Q(1, 10) /\ ~CallIncludeSelf
    /\ At(grid, 0, 1) # VZero
    /\ At(grid, 0, 1) # StencilSum(pre, call.cfg, 1, 0, FALSE)

(***************************************************************************)
(* Properties of the pattern generators.                                   *)
(***************************************************************************)
IsRadial == call.op = "create_radial_pattern"
IsTangential == call.op = "create_tangential_pattern"
IsPattern == IsRadial \/ IsTangential
Min(a, b) == IF a < b THEN a ELSE b
\* the offset of cell (x, y) from the center c, and its squared length
OffX(c, x) == QSub(QI(x), c[1])
OffY(c, y) == QSub(QI(y), c[2])
DistSq(c, x, y) == QAdd(QMul(OffX(c, x), OffX(c, x)), QMul(OffY(c, y), OffY(c, y)))
\* 0 < d < radius, d the distance of (x, y) to c
InsideRadius(c, radius, x, y) ==
    /\ QLess(QZero, DistSq(c, x, y))
    /\ QLess(QZero, radius)
    /\ QLess(DistSq(c, x, y), QMul(radius, radius))
\* center and radius of the last pattern call
CallCenter == PatternCenter(pre, call.center)
CallRadius == PatternRadius(pre, call.radius)
\* magnitude * (1 - d/radius) * (ux/d, uy/d) for a direction (ux, uy)
FalloffAlong(magnitude, radius, c, x, y, ux, uy) ==
    LET d == Dist(OffX(c, x), OffY(c, y))
        k == RSub(RInv(d), RQ(QDiv(QOne, radius)))
    IN  <<RScale(QMul(magnitude, ux), k), RScale(QMul(magnitude, uy), k)>>
\* u . v for a real vector u and a rational vector (vx, vy)
Dot(u, vx, vy) == RAdd(RScale(vx, u[1]), RScale(vy, u[2]))

\* C6: create_radial_pattern and create_tangential_pattern change only the
\* cells whose distance d to the center satisfies 0 < d < radius; every
\* other cell, the center included, keeps its value, and a radius <= 0
\* leaves the whole grid unchanged.
C6_PartialOverwrite ==
    IsPattern =>
        /\ ret.kind = "return"
        /\ \A c \in Cells(pre.h, pre.w) :
              ~InsideRadius(CallCenter, CallRadius, c[2], c[1])
              => At(grid, c[1], c[2]) = At(pre, c[1], c[2])
        /\ (QLeq(CallRadius, QZero) => grid = pre)

C6_Witness ==
    /\ IsPattern /\ call.center = Some(<<QZero, QZero>>) /\ call.radius = Some(Q(3, 2))
    /\ pre.h = 3 /\ pre.w = 3
    /\ At(pre, 0, 0) # VZero /\ At(grid, 0, 0) = At(pre, 0, 0)
    /\ At(pre, 0, 2) # VZero /\ At(grid, 0, 2) = At(pre, 0, 2)
    /\ At(pre, 2, 1) # VZero /\ At(grid, 2, 1) = At(pre, 2, 1)
    /\ At(grid, 0, 1) # At(pre, 0, 1)
    /\ At(grid, 1, 1) # At(pre, 1, 1)

\* C7: create_radial_pattern overwrites every cell at offset (dx, dy) from
\* the center with 0 < d < radius by magnitude*(1 - d/radius)*(dx/d, dy/d),
\* which points away from the center for a positive magnitude, whatever
\* the cell held; with center (32,32), radius 16 and magnitude 1 the cell
\* (40,32) becomes (0.5, 0).
C7_RadialVector ==
    /\ IsRadial =>
          \A c \in Cells(pre.h, pre.w) :
              InsideRadius(CallCenter, CallRadius, c[2], c[1])
              => /\ At(grid, c[1], c[2])
                    = FalloffAlong(call.magnitude, CallRadius, CallCenter, c[2], c[1],
                                   OffX(CallCenter, c[2]), OffY(CallCenter, c[1]))
                 /\ (QLess(QZero, call.magnitude)
                     => RSign(Dot(At(grid, c[1], c[2]),
                                  OffX(CallCenter, c[2]), OffY(CallCenter, c[1]))) > 0)
    /\ Mask(Dist(QI(40 - 32), QI(32 - 32)), QI(16))
    /\ PatternVector(RadialAngle(QI(32 - 32), QI(40 - 32)), QOne,
                     Dist(QI(40 - 32), QI(32 - 32)), QI(16))
       = <<RFrac(1, 2), RZero>>

C7_Witness ==
    /\ IsRadial /\ call.center = Some(<<QOne, QOne>>) /\ call.radius = Some(QI(2))
    /\ call.magnitude = QOne
    /\ pre.h = 3 /\ pre.w = 3
    /\ At(pre, 0, 2) # VZero /\ At(pre, 1, 2) # VZero
    /\ At(grid, 1, 2) = <<RFrac(1, 2), RZero>>
    /\ At(grid, 0, 2) # At(pre, 0, 2)
    /\ At(grid, 0, 2)[1] = RNeg(At(grid, 0, 2)[2])

\* C8: create_tangential_pattern overwrites every cell at offset (dx, dy)
\* with 0 < d < radius by the radial vector turned by +90 degrees,
\* magnitude*(1 - d/radius)*(-dy/d, dx/d); with center (32,32), radius 16
\* and magnitude 1 the cell (40,32) holds (0, 0.5).
C8_TangentialVector ==
    /\ IsTangential =>
          \A c \in Cells(pre.h, pre.w) :
              InsideRadius(CallCenter, CallRadius, c[2], c[1])
              => At(grid, c[1], c[2])
                 = FalloffAlong(call.magnitude, CallRadius, CallCenter, c[2], c[1],
                                QNeg(OffY(CallCenter, c[1])), OffX(CallCenter, c[2]))
    /\ Mask(Dist(QI(40 - 32), QI(32 - 32)), QI(16))
    /\ PatternVector(TangentialAngle(QI(32 - 32), QI(40 - 32)), QOne,
                     Dist(QI(40 - 32), QI(32 - 32)), QI(16))
       = <<RZero, RFrac(1, 2)>>

C8_Witness ==
    /\ IsTangential /\ call.center = Some(<<QOne, QOne>>) /\ call.radius = Some(QI(2))
    /\ call.magnitude = QOne
    /\ pre.h = 3 /\ pre.w = 3
    /\ At(pre, 0, 2) # VZero /\ At(pre, 1, 2) # VZero
    /\ At(grid, 1, 2) = <<RZero, RFrac(1, 2)>>
    /\ At(grid, 0, 2) # At(pre, 0, 2)
    /\ At(grid, 0, 2)[1] = At(grid, 0, 2)[2]

\* the outcome of the last pattern call, had it been given center and radius
PatternWith(center, radius) ==
    IF IsRadial THEN create_radial_pattern(pre, center, radius, call.magnitude)
    ELSE create_tangential_pattern(pre, center, radius, call.magnitude)

\* C9 as claimed: when center and radius are omitted the patterns use the
\* grid center and the radius min(w,h)/4 (1.5 on a 6x6 grid, so that the
\* four cells at distance 1 from the center are overwritten).
C9_DefaultRadiusQuarter ==
    (IsPattern /\ call.center = None /\ call.radius = None)
    => ret = PatternWith(Some(<<QI(pre.w \div 2), QI(pre.h \div 2)>>),
                         Some(Q(Min(pre.w, pre.h), 4)))

\* C9 as amended: an omitted center is (w // 2, h // 2) and an omitted
\* radius is min(w,h) // 4, the quarter rounded down to an integer; on a
\* 6x6 grid the radius is 1 and no cell is overwritten.
C9_DefaultRadiusFloored ==
    IsPattern =>
        /\ ret = PatternWith(
                    IF call.center = None
                    THEN Some(<<QI(pre.w \div 2), QI(pre.h \div 2)>>) ELSE call.center,
                    IF call.radius = None
                    THEN Some(QI(Min(pre.w, pre.h) \div 4)) ELSE call.radius)
        /\ (call.center = None /\ call.radius = None /\ Min(pre.w, pre.h) < 8
            => grid = pre)

C9_Witness ==
    /\ IsPattern /\ call.center = None /\ call.radius = None
    /\ pre.h = 8 /\ pre.w = 8
    /\ At(grid, 4, 5) # At(pre, 4, 5)
    /\ At(grid, 4, 6) = At(pre, 4, 6)

(***************************************************************************)
(* Properties of the detector.                                             *)
(***************************************************************************)
IsFind == call.op = "find_vector_centers"
\* the Euclidean distance of two cells is at least m
FarApart(a, b, m) ==
    QLeq(m, QZero)
    \/ QLeq(QMul(m, m), QI((a[1] - b[1]) * (a[1] - b[1]) + (a[2] - b[2]) * (a[2] - b[2])))

\* C10: any two centers returned by find_vector_centers, sources or sinks,
\* are at Euclidean distance >= min_distance from each other.
C10_CentersFarApart ==
    (IsFind /\ ret.kind = "return")
    => \A i \in 1..Len(ret.val), j \in 1..Len(ret.val) :
          i < j => FarApart(ret.val[i], ret.val[j], call.min_distance)

\* the cell <<y, x>> passes the divergence and magnitude tests of a pass
C10_Candidate(c) ==
    /\ MagnitudeAbove(pre, c[1], c[2], Q(1, 10))
    /\ \/ /\ RLess(RQ(call.threshold), max_div(pre))
          /\ RLess(RScale(call.threshold, max_div(pre)), div(pre, c[1], c[2]))
       \/ /\ RLess(min_div(pre), RQ(QNeg(call.threshold)))
          /\ RLess(div(pre, c[1], c[2]), RScale(call.threshold, min_div(pre)))

\* a source and a sink are returned, and a candidate was turned down
C10_Witness ==
    /\ IsFind /\ ret.kind = "return"
    /\ QLess(QZero, call.threshold)
    /\ QLeq(QI(2), call.min_distance)
    /\ Len(ret.val) >= 2
    /\ RSign(div(pre, ret.val[1][2], ret.val[1][1])) > 0
    /\ RSign(div(pre, ret.val[Len(ret.val)][2], ret.val[Len(ret.val)][1])) < 0
    /\ \E c \in Cells(pre.h, pre.w) :
          /\ C10_Candidate(c)
          /\ \A k \in 1..Len(ret.val) : ret.val[k] # <<c[2], c[1]>>

AllZero(g) == \A c \in Cells(g.h, g.w) : g.v[c] = VZero

\* C11: find_vector_centers on an all-zero grid of any shape H x W with
\* H >= 1 and W >= 1, single rows and single columns included, returns the
\* empty list without raising, whatever threshold and min_distance are.
\* The code indexes rows 1 and -2 and columns 1 and -2 with integers, so a
\* grid with one row or one column raises IndexError.
C11_AllZeroReturnsEmpty ==
    (IsFind /\ AllZero(pre)) => ret = Return(<< >>)

\* the 64 x 64 field of the scenario: an empty grid after
\* create_radial_pattern(center=(32,32), radius=16, magnitude=1.0)
C12_Field ==
    create_radial_pattern(create_vector_grid(64, 64, <<QZero, QZero>>),
                          Some(<<QI(32), QI(32)>>), Some(QI(16)), QOne).val

\* C12: on that field find_vector_centers(threshold=0.1, min_distance=5)
\* returns a list with a center at most 2 cells away from (32,32).
\* The code returns (31,29), (35,32) and (30,34): the cell (32,32) itself
\* holds the zero vector and fails the magnitude test, and the candidates
\* are accepted in row-major order, so the first one accepted lies on the
\* rim of the region above the cut and shadows the cells near the middle.
C12_CenterNearMiddle ==
    (/\ IsFind
     /\ pre = C12_Field
     /\ call.threshold = Q(1, 10)
     /\ call.min_distance = QI(5))
    => /\ ret.kind = "return"
       /\ \E i \in 1..Len(ret.val) :
            (ret.val[i][1] - 32) * (ret.val[i][1] - 32)
                + (ret.val[i][2] - 32) * (ret.val[i][2] - 32) <= 4

(***************************************************************************)
(* Properties of the marker tracker.                                       *)
(***************************************************************************)
IsUpdateMarkers == call.op = "update_markers"
Range(f) == {f[i] : i \in DOMAIN f}
\* the list update_markers works on: the one the state manager holds
ListBefore ==
    IF call.before.stored # None THEN call.before.stored[1] ELSE call.before.markers
\* the marker's rounded position is a cell of the grid
RoundsIntoGrid(g, m) ==
    /\ ~IsNaN(m.x) /\ ~IsNaN(m.y)
    /\ InBounds(g, PyRound(m.x), PyRound(m.y))
\* the cells at most n columns and n rows away from the rounded position
WindowCells(g, m, n) ==
    {c \in Cells(g.h, g.w) : /\ Abs(c[2] - PyRound(m.x)) <= n
                            /\ Abs(c[1] - PyRound(m.y)) <= n}
ZeroWindow(g, m, n) == \A c \in WindowCells(g, m, n) : g.v[c] = VZero
\* the window held zero vectors before the call and holds them after it
\* (a pattern writes no zero vector for a magnitude other than 0, so it held
\* them when the marker was sampled)
SampledZero(id) ==
    LET m == call.before.heap[id]
    IN  /\ RoundsIntoGrid(pre, m)
        /\ ZeroWindow(pre, m, call.neighborhood)
        /\ ZeroWindow(grid, m, call.neighborhood)
\* the average magnitude over the window of m on the grid g
AvgMag(g, m, n) ==
    LET cells == SelectSeq(RowMajor(g), LAMBDA c : c \in WindowCells(g, m, n))
    IN  RDivQ(WindowSums(g, cells, 1)[3], QI(Len(cells)))

\* C13 as stated: a marker whose window holds only zero vectors (avg_mag 0)
\* is absent from get_markers() after one update_markers call with
\* clear_threshold = 1e-3.
C13_ZeroWindowPruned ==
    (IsUpdateMarkers /\ call.clear_threshold = Q(1, 1000)) =>
        \A id \in Range(ListBefore) :
            SampledZero(id) => id \notin Range(get_markers(tracker))

\* C13, amended: such a marker is deferred, not pruned: it is still in
\* get_markers() after the call, with the x, y and mag it had; when the call
\* returns, the first marker of the list is dropped exactly when the average
\* magnitude over its window is positive and below clear_threshold.
C13_ZeroWindowKept ==
    IsUpdateMarkers =>
        /\ \A id \in Range(ListBefore) :
            SampledZero(id) =>
                /\ id \in Range(get_markers(tracker))
                /\ tracker.heap[id] = call.before.heap[id]
        /\ (/\ ret = Return(None)
            /\ ListBefore # << >>
            /\ RoundsIntoGrid(pre, call.before.heap[ListBefore[1]])) =>
            LET id == ListBefore[1]
                avg == AvgMag(pre, call.before.heap[id], call.neighborhood)
            IN  (id \notin Range(get_markers(tracker)))
                    <=> (RSign(avg) > 0 /\ RLess(avg, RQ(call.clear_threshold)))

\* a call with clear_threshold = 1e-3 that kept a marker sampled on zero
\* vectors and dropped another one
C13_Witness ==
    /\ IsUpdateMarkers
    /\ call.clear_threshold = Q(1, 1000)
    /\ ret = Return(None)
    /\ \E id \in Range(ListBefore) :
        /\ SampledZero(id)
        /\ WindowCells(pre, call.before.heap[id], call.neighborhood) # {}
        /\ id \in Range(get_markers(tracker))
    /\ \E id \in Range(ListBefore) : id \notin Range(get_markers(tracker))

\* the position of e in the list b
PositionIn(b, e) == CHOOSE k \in DOMAIN b : b[k] = e
\* a holds some of the elements of b, in the order they have in b
IsSublist(a, b) ==
    /\ Range(a) \subseteq Range(b)
    /\ \A i \in DOMAIN a : \A j \in DOMAIN a :
        i < j => PositionIn(b, a[i]) < PositionIn(b, a[j])

\* C14: over any sequence of add_marker, clear_markers and update_markers
\* calls, an update_markers call leaves a sublist of the list it found (it
\* adds nothing, not even through its reload from the state manager, and it
\* keeps the order of what it keeps), a marker it has dropped is in the list
\* after no later call, and the list grows in an add_marker call only.
C14_UpdateNeverAdds ==
    [][/\ call'.op = "update_markers" =>
            IsSublist(get_markers(tracker'), get_markers(tracker))
       /\ tracker'.pruned \cap Range(get_markers(tracker')) = {}
       /\ Len(get_markers(tracker')) > Len(get_markers(tracker)) =>
            call'.op = "add_marker"]_vars

\* an update_markers call that keeps a marker, made after an earlier call
\* has dropped another one
C14_Witness ==
    /\ IsUpdateMarkers
    /\ ret = Return(None)
    /\ call.before.pruned # {}
    /\ get_markers(tracker) # << >>
    /\ get_markers(tracker) = call.before.markers

\* what get_markers() would return now, dict by dict
Contents(t) == [i \in DOMAIN get_markers(t) |-> t.heap[get_markers(t)[i]]]

\* C15: whatever a caller does to the list get_markers returned, or to a
\* marker of it, a later get_markers returns the same markers with the same
\* x, y and mag as before the caller acted.
C15_SnapshotImmutable ==
    call.op \in {"caller_remove", "caller_set"} =>
        Contents(tracker) = Contents(call.before)

(***************************************************************************)
(* Properties of add_vector_at_position                                    *)
(***************************************************************************)
IsAddVector == call.op = "add_vector_at_position" /\ QLess(QZero, call.radius)

\* (vx, vy) * max(0, 1 - dist/radius) for the cell (yy, xx) and the centre
\* (cy, cx), dist compared with radius by their squares
Contribution(cx, cy, yy, xx) ==
    LET d2 == QI((xx - cx) * (xx - cx) + (yy - cy) * (yy - cy))
        factor == RSub(ROne, RDivQ(RSqrtQ(d2), call.radius))
    IN  IF QLeq(QMul(call.radius, call.radius), d2) THEN <<RZero, RZero>>
        ELSE <<RScale(call.vx, factor), RScale(call.vy, factor)>>

\* every cell holds what it held plus its contribution around (cx, cy)
AddedAround(cx, cy) ==
    /\ grid.h = pre.h /\ grid.w = pre.w
    /\ \A c \in Cells(pre.h, pre.w) :
        At(grid, c[1], c[2]) =
            VAdd(At(pre, c[1], c[2]), Contribution(cx, cy, c[1], c[2]))

\* C16 as stated: add_vector_at_position with radius > 0 adds
\* (vx, vy) * max(0, 1 - dist/radius) to every cell of the grid, dist being
\* the cell's distance to the rounded (x, y).
C16_AddsAroundRounded ==
    IsAddVector => AddedAround(PyRound(call.x), PyRound(call.y))

\* C16: add_vector_at_position with radius > 0 adds
\* (vx, vy) * max(0, 1 - dist/radius) to every cell of the grid, dist being
\* the cell's distance to the rounded position of (x, y) once x is brought
\* into [0, w - 1] and y into [0, h - 1]; that cell gains exactly (vx, vy),
\* a cell with dist >= radius keeps its contents, and the values are added
\* to what the cells held.
C16_AddsAroundClampedRounded ==
    IsAddVector =>
        AddedAround(PyRound(ClampToGrid(call.x, pre.w)),
                    PyRound(ClampToGrid(call.y, pre.h)))

\* a call for a position outside the grid that raises one cell by a part of
\* (vx, vy) and leaves another cell, holding a vector, as it was
C16_Witness ==
    /\ IsAddVector
    /\ ClampToGrid(call.x, pre.w) # call.x
    /\ \E c \in Cells(pre.h, pre.w) :
        /\ At(grid, c[1], c[2]) # At(pre, c[1], c[2])
        /\ At(grid, c[1], c[2]) #
               VAdd(At(pre, c[1], c[2]), <<RQ(call.vx), RQ(call.vy)>>)
    /\ \E c \in Cells(pre.h, pre.w) :
        /\ At(pre, c[1], c[2]) # <<RZero, RZero>>
        /\ At(grid, c[1], c[2]) = At(pre, c[1], c[2])

\* what create_tiny_vector is to add to the cell (yy, xx) for the rounded
\* position (cx, cy)
TinyContribution(cx, cy, yy, xx) ==
    LET dx == xx - cx
        dy == yy - cy
    IN  IF dx = 0 /\ dy = 0
        THEN <<RQ(QMul(call.vx, call.mag)), RQ(QMul(call.vy, call.mag))>>
        ELSE IF Abs(dx) + Abs(dy) = 1
        THEN <<RQ(QMul(QI(dx), call.mag)), RQ(QMul(QI(dy), call.mag))>>
        ELSE <<RZero, RZero>>

\* C17: create_tiny_vector(grid, x, y, mag, vx, vy) returns normally, having
\* added (dx*mag, dy*mag) to each of the four orthogonal neighbours (dx, dy)
\* of the rounded (x, y) and (vx*mag, vy*mag) to the cell at the rounded
\* (x, y), every other cell keeping its contents.
C17_TinyVectorAdds ==
    call.op = "create_tiny_vector" =>
        /\ ret = Return(None)
        /\ \A c \in Cells(pre.h, pre.w) :
            At(grid, c[1], c[2]) =
                VAdd(At(pre, c[1], c[2]),
                     TinyContribution(PyRound(call.x), PyRound(call.y), c[1], c[2]))

(***************************************************************************)
(* The marker at the centre of a radial pattern                            *)
(***************************************************************************)
\* the marker the call found, and its window on the grid before the call
CenterMarker == call.before.heap[call.before.markers[1]]
\* the window of half-width neighborhood around the marker lies in the grid
WindowInside ==
    LET cx == PyRound(CenterMarker.x)
        cy == PyRound(CenterMarker.y)
    IN  /\ 0 <= cx - call.neighborhood /\ cx + call.neighborhood <= pre.w - 1
        /\ 0 <= cy - call.neighborhood /\ cy + call.neighborhood <= pre.h - 1
\* an update_markers call for a marker at the centre of the pattern, with a
\* window the border does not cut
IsCenteredUpdate ==
    /\ IsUpdateMarkers
    /\ call.before.markers # << >>
    /\ <<CenterMarker.x, CenterMarker.y>> = call.pattern.center[1]
    /\ WindowInside
\* the marker is where it was
CenterMarkerUnmoved ==
    LET id == call.before.markers[1]
    IN  /\ tracker.heap[id].x = call.before.heap[id].x
        /\ tracker.heap[id].y = call.before.heap[id].y
\* the average magnitude over the window is not zero and below the threshold
CenterFaint ==
    LET avg == AvgMag(pre, CenterMarker, call.neighborhood)
    IN  avg # RZero /\ RLess(avg, RQ(call.clear_threshold))

\* C18 as stated: a marker at the centre of a radial pattern, its window
\* symmetric about the centre and not cut by the border, has the same x and
\* y after one update_markers call and is still in the list.
C18_CenterMarkerStays ==
    IsCenteredUpdate =>
        /\ ret = Return(None)
        /\ CenterMarkerUnmoved
        /\ get_markers(tracker) = call.before.markers

\* C18, amended: such a marker has the same x and y after the call; it is
\* still in the list unless the average magnitude over its window is not
\* zero and below clear_threshold, and then it is removed.
C18_CenterMarkerStaysOrFades ==
    IsCenteredUpdate =>
        /\ ret = Return(None)
        /\ CenterMarkerUnmoved
        /\ get_markers(tracker) =
               IF CenterFaint THEN << >> ELSE call.before.markers

\* the marker stayed in the list, on a pattern with vectors in its window
\* that the call has overwritten with the marker's own pattern
C18_Witness ==
    /\ IsCenteredUpdate
    /\ get_markers(tracker) = call.before.markers
    /\ AvgMag(pre, CenterMarker, call.neighborhood) # RZero
    /\ pre.w > 3
    /\ grid # pre

(***************************************************************************)
(* A marker whose processing fails                                         *)
(***************************************************************************)
\* the markers of the list whose processing fails: a nan coordinate cannot
\* be rounded
FailingMarkers ==
    {id \in Range(ListBefore) :
        IsNaN(call.before.heap[id].x) \/ IsNaN(call.before.heap[id].y)}
\* the same call on the same grid, made for the list without those markers
WithoutFailure ==
    LET others == SelectSeq(ListBefore, LAMBDA id : id \notin FailingMarkers)
    IN  update_markers([call.before EXCEPT !.markers = others,
                                           !.stored = Some(others)],
                       pre, call.neighborhood, call.move_factor,
                       call.clear_threshold)

\* C19: when the processing of a marker fails in update_markers, the call
\* completes normally, the failing marker is still in the list at its old
\* position, and every other marker and the grid end as they would have
\* without the failing marker.
C19_FailureIsolated ==
    (IsUpdateMarkers /\ FailingMarkers # {}) =>
        /\ ret = Return(None)
        /\ \A id \in FailingMarkers :
            /\ id \in Range(get_markers(tracker))
            /\ tracker.heap[id] = call.before.heap[id]
        /\ grid = WithoutFailure.grid
        /\ \A id \in Range(ListBefore) \ FailingMarkers :
            /\ tracker.heap[id] = WithoutFailure.t.heap[id]
            /\ id \in Range(get_markers(tracker))
                   <=> id \in Range(get_markers(WithoutFailure.t))

(***************************************************************************)
(* Grid arguments that are no arrays                                       *)
(***************************************************************************)
GridOperations ==
    {"sum_adjacent_vectors", "update_grid_with_adjacent_sum",
     "create_radial_pattern", "create_tangential_pattern", "find_vector_centers"}

\* C20: each grid operation called with a grid argument that is None or no
\* array raises an error and changes nothing; none returns a normal result.
C20_InvalidGridRaises ==
    (call.op \in GridOperations /\ ~IsArray(pre)) =>
        /\ ret.kind = "raise"
        /\ grid = pre

(***************************************************************************)
(* create_vector_grid                                                      *)
(***************************************************************************)
\* C21: create_vector_grid(width, height, default) fails with an error and
\* returns no grid whenever width <= 0 or height <= 0; for positive width
\* and height it returns a height x width grid whose every cell is default.
C21_CreateGridValidates ==
    call.op = "create_vector_grid" =>
        IF call.width <= 0 \/ call.height <= 0
        THEN ret.kind = "raise"
        ELSE /\ ret.kind = "return"
             /\ ret.val.h = call.height /\ ret.val.w = call.width
             /\ \A y \in 0..(call.height - 1), x \in 0..(call.width - 1) :
                 At(ret.val, y, x) = <<RQ(call.default[1]), RQ(call.default[2])>>

(***************************************************************************)
(* The all-zero grid under update_grid_with_adjacent_sum                   *)
(***************************************************************************)
\* C22: starting from an all-zero grid, after any number of
\* update_grid_with_adjacent_sum calls, whatever include_self, the weights
\* and the enable_average and enable_normalization switches of each call,
\* the grid has the shape it had and is all-zero, and so is the grid
\* returned.
C22_ZeroFixedPoint ==
    /\ AllZero(grid)
    /\ grid.h = pre.h /\ grid.w = pre.w
    /\ call.op = "update_grid_with_adjacent_sum" => ret = Return(grid)

\* a second call in a row, normalising with weights that are not zero, on a
\* grid with interior and border cells
C22_Witness ==
    /\ call.op = "update_grid_with_adjacent_sum"
    /\ call.again
    /\ call.cfg.enable_normalization /\ ~call.cfg.enable_average
    /\ call.cfg.neighbor_weight # QZero
    /\ grid.h >= 3 /\ grid.w >= 3

(***************************************************************************)
(* Degenerate windows, pruning, displacement                               *)
(***************************************************************************)
\* the marker has a rounded position
Roundable(m) == ~IsNaN(m.x) /\ ~IsNaN(m.y)
\* the window of the marker holds no cell, or only zero vectors, before the
\* call and after it (a pattern writes no zero vector, so also when the
\* marker was sampled)
Degenerate(id) ==
    LET m == call.before.heap[id]
    IN  /\ Roundable(m)
        /\ ZeroWindow(pre, m, call.neighborhood)
        /\ ZeroWindow(grid, m, call.neighborhood)

\* C23: in update_markers a marker whose window holds no cell, or only
\* vectors of zero magnitude, is still in the list after the call with the
\* x and y it had, whatever clear_threshold is; and a call in which every
\* marker is such a marker writes nothing to the grid.
C23_DegenerateKept ==
    IsUpdateMarkers =>
        /\ \A id \in Range(ListBefore) :
            Degenerate(id) =>
                /\ id \in Range(get_markers(tracker))
                /\ tracker.heap[id].x = call.before.heap[id].x
                /\ tracker.heap[id].y = call.before.heap[id].y
        /\ (\A id \in Range(ListBefore) : Degenerate(id)) => grid = pre

\* the first marker of the list is sampled on the grid the call was given;
\* its window has a total magnitude other than zero
FirstSampled ==
    /\ ListBefore # <<>>
    /\ Roundable(call.before.heap[ListBefore[1]])
    /\ ~ZeroWindow(pre, call.before.heap[ListBefore[1]], call.neighborhood)
FirstAvgMag == AvgMag(pre, call.before.heap[ListBefore[1]], call.neighborhood)

\* C24: in update_markers a marker whose window has a total magnitude other
\* than zero is removed from the list exactly when avg_mag, the sum of the
\* magnitudes over the number of cells of the window, is strictly below
\* clear_threshold; a call that prunes its only marker writes nothing to the
\* grid.
C24_PrunedIffFaint ==
    (IsUpdateMarkers /\ FirstSampled) =>
        /\ ListBefore[1] \notin Range(get_markers(tracker))
            <=> Fades(FirstAvgMag, call.clear_threshold)
        /\ (Len(ListBefore) = 1 /\ Fades(FirstAvgMag, call.clear_threshold))
            => grid = pre

\* q between 0 and n - 1
OnAxis(q, n) == ~IsNaN(q) /\ QLeq(QZero, q) /\ QLeq(q, QI(n - 1))
\* old + move_factor * sum / count, brought back onto the axis of n cells
DisplacedTo(old, move_factor, sum, count, n) ==
    LET target == QAdd(old, QMul(move_factor, AsQ(RDivQ(sum, QI(count)))))
    IN  IF QLess(target, QZero) THEN QZero
        ELSE IF QLess(QI(n - 1), target) THEN QI(n - 1)
        ELSE target
\* the vectors the first marker of the list is sampled on
FirstSlice ==
    LET m == call.before.heap[ListBefore[1]]
    IN  Neighborhood(pre, PyRound(m.x), PyRound(m.y), call.neighborhood)
\* update_markers displaces the first marker of the list
FirstDisplaced ==
    /\ IsUpdateMarkers
    /\ ListBefore # <<>>
    /\ Roundable(call.before.heap[ListBefore[1]])
    /\ FirstSlice # <<>>
    /\ WindowSums(pre, FirstSlice, 1)[3] # RZero
    /\ ~RLess(RDivQ(WindowSums(pre, FirstSlice, 1)[3], QI(Len(FirstSlice))),
              RQ(call.clear_threshold))

NearPosition(c, x, y) ==
    LET dx == QSub(QI(c[2]), x)
        dy == QSub(QI(c[1]), y)
        adx == <<Abs(dx[1]), dx[2]>>
        ady == <<Abs(dy[1]), dy[2]>>
    IN  IF dy[1] = 0 THEN QLess(QZero, adx) /\ QLess(adx, QI(2))
        ELSE IF dx[1] = 0 THEN QLess(ady, QI(2))
        ELSE /\ QLess(adx, QI(2)) /\ QLess(ady, QI(2))
             /\ QLess(QAdd(QMul(dx, dx), QMul(dy, dy)), QI(4))
\* the cells whose vector the call changed
Written == {c \in Cells(pre.h, pre.w) : grid.v[c] # pre.v[c]}
\* the x the first marker would reach if it were sampled on the grid g
FirstTargetX(g) ==
    DisplacedTo(call.before.heap[ListBefore[1]].x, call.move_factor,
                WindowSums(g, FirstSlice, 1)[1], Len(FirstSlice), pre.w)

\* C26: the marker update_markers moves is displaced by the sample of the
\* grid as it was before the marker's own pattern was written, and the
\* pattern is written around the position the marker has moved to: every
\* cell the call changes lies within the pattern radius of the position a
\* marker of the list has after the call, none only around the position a
\* marker has left.
C26_SampleThenWrite ==
    IsUpdateMarkers =>
        /\ FirstDisplaced =>
            tracker.heap[ListBefore[1]].x = FirstTargetX(pre)
        /\ \A c \in Written :
            \E id \in Range(ListBefore) :
                /\ Roundable(tracker.heap[id])
                /\ NearPosition(c, tracker.heap[id].x, tracker.heap[id].y)
\* a lone marker moves; the grid it has written would have sent it
\* elsewhere, and a cell next to where it was is left as it was
C26_Witness ==
    /\ FirstDisplaced
    /\ Len(ListBefore) = 1
    /\ tracker.heap[ListBefore[1]].x # FirstTargetX(grid)
    /\ Written # {}
    /\ \E c \in Cells(pre.h, pre.w) \ Written :
        /\ OnAxis(call.before.heap[ListBefore[1]].x, pre.w)
        /\ NearPosition(c, call.before.heap[ListBefore[1]].x,
                        call.before.heap[ListBefore[1]].y)
        /\ ~NearPosition(c, tracker.heap[ListBefore[1]].x,
                         tracker.heap[ListBefore[1]].y)

\* C27: the vectors update_markers samples for a marker are exactly those of
\* the cells of the grid at most neighborhood columns and neighborhood rows
\* away from the rounded position; a marker rounded more than neighborhood
\* cells outside the grid, on whichever side, is sampled on no cell and is
\* left in the list where it was.
C27_WindowInGrid ==
    (IsUpdateMarkers /\ ListBefore # <<>>
        /\ Roundable(call.before.heap[ListBefore[1]])) =>
        LET id == ListBefore[1]
            window == WindowCells(pre, call.before.heap[id], call.neighborhood)
        IN  /\ Range(FirstSlice) = window
            /\ window = {} =>
                /\ id \in Range(get_markers(tracker))
                /\ tracker.heap[id] = call.before.heap[id]

(***************************************************************************)
(* The divergence field of find_vector_centers                             *)
(***************************************************************************)
IsCorner(g, y, x) == y \in {0, g.h - 1} /\ x \in {0, g.w - 1}
\* the difference of vx between the columns next to x of row y, and of vy
\* between the rows next to y of column x: across two cells inside the grid,
\* across one cell (towards the inside) on its border
AlongX(g, y, x) ==
    IF x = 0 THEN RSub(Vx(g, y, 1), Vx(g, y, 0))
    ELSE IF x = g.w - 1 THEN RSub(Vx(g, y, x), Vx(g, y, x - 1))
    ELSE Half(RSub(Vx(g, y, x + 1), Vx(g, y, x - 1)))
AlongY(g, y, x) ==
    IF y = 0 THEN RSub(Vy(g, 1, x), Vy(g, 0, x))
    ELSE IF y = g.h - 1 THEN RSub(Vy(g, y, x), Vy(g, y - 1, x))
    ELSE Half(RSub(Vy(g, y + 1, x), Vy(g, y - 1, x)))
Divergence(g, y, x) ==
    IF IsCorner(g, y, x) THEN RZero ELSE RAdd(AlongX(g, y, x), AlongY(g, y, x))

\* C28: the divergence find_vector_centers works with is, inside the grid,
\* the halved central difference of vx along x plus that of vy along y; on
\* the top and bottom rows the one-sided difference of vy is not halved, on
\* the left and right columns that of vx is not; it is 0 at the four
\* corners, and no corner is among the centers returned for a threshold
\* that is not negative.
C28_Divergence ==
    (IsFind /\ ret.kind = "return" /\ IsArray(pre)) =>
        /\ \A c \in Cells(pre.h, pre.w) :
            div(pre, c[1], c[2]) = Divergence(pre, c[1], c[2])
        /\ QLeq(QZero, call.threshold) =>
            \A k \in DOMAIN ret.val : ~IsCorner(pre, ret.val[k][2], ret.val[k][1])
\* centers are returned from a grid with inner cells, border cells whose
\* one-sided difference counts, and a corner vector long enough to be one
C28_Witness ==
    /\ IsFind /\ ret.kind = "return" /\ IsArray(pre)
    /\ QLeq(QZero, call.threshold)
    /\ pre.h >= 3 /\ pre.w >= 3
    /\ ret.val # << >>
    /\ \E c \in Cells(pre.h, pre.w) :
        IsCorner(pre, c[1], c[2]) /\ MagnitudeAbove(pre, c[1], c[2], Q(1, 10))
    /\ \E c \in Cells(pre.h, pre.w) :
        /\ ~IsCorner(pre, c[1], c[2])
        /\ c[1] \in {0, pre.h - 1}
        /\ AlongY(pre, c[1], c[2]) # RZero
    /\ \E k \in DOMAIN ret.val :
        ret.val[k][2] \in {0, pre.h - 1} \/ ret.val[k][1] \in {0, pre.w - 1}

(***************************************************************************)
(* The cells update_markers writes                                         *)
(***************************************************************************)
\* sum_mag over count cells is not zero and its average not below the
\* threshold
StrongEnough(count, sum_mag, clear_threshold) ==
    /\ count # 0
    /\ sum_mag # RZero
    /\ ~RLess(RDivQ(sum_mag, QI(count)), RQ(clear_threshold))
\* the marker m, sampled on the grid g, is one the call moves
MovedOn(g, m) ==
    /\ Roundable(m)
    /\ StrongEnough(Len(Neighborhood(g, PyRound(m.x), PyRound(m.y),
                                     call.neighborhood)),
                    WindowSums(g, Neighborhood(g, PyRound(m.x), PyRound(m.y),
                                               call.neighborhood), 1)[3],
                    call.clear_threshold)
\* the grid g with every cell at a distance d, 0 < d < 2, from (x, y)
\* replaced by the vector of length mag * (1 - d/2) pointing away from (x, y)
RadialAround(g, x, y, mag) ==
    [g EXCEPT !.v = [c \in Cells(g.h, g.w) |->
        IF NearPosition(c, x, y)
        THEN FalloffAlong(mag, QI(2), <<x, y>>, c[2], c[1],
                          OffX(<<x, y>>, c[2]), OffY(<<x, y>>, c[1]))
        ELSE g.v[c]]]
\* the grid after the markers i, i+1, ... of the list, g being the grid
\* before them: each marker that is moved writes around where it ends
RECURSIVE GridAfter(_, _)
GridAfter(g, i) ==
    IF i > Len(ListBefore) THEN g
    ELSE IF ~Roundable(call.before.heap[ListBefore[i]]) THEN g
    ELSE IF MovedOn(g, call.before.heap[ListBefore[i]])
    THEN GridAfter(RadialAround(g, tracker.heap[ListBefore[i]].x,
                                tracker.heap[ListBefore[i]].y,
                                tracker.heap[ListBefore[i]].mag), i + 1)
    ELSE GridAfter(g, i + 1)

\* C29: update_markers changes, for each marker it moves, the cells at a
\* distance d, 0 < d < 2, from the marker's new position and no other cell;
\* each of them is overwritten, whatever it held, with the radial vector of
\* magnitude mag * (1 - d/2) pointing away from the new position (a cell
\* within reach of several moved markers keeps what the last of them wrote);
\* a call that moves no marker leaves the grid as it was.
C29_OnlyPatternsWritten ==
    IsUpdateMarkers =>
        /\ grid = GridAfter(pre, 1)
        /\ (\A id \in Range(ListBefore) : ~MovedOn(pre, call.before.heap[id]))
            => grid = pre
\* a moved marker overwrites a cell that held another vector, and a call on
\* a grid with vectors moves nothing
C29_Witness ==
    /\ IsUpdateMarkers
    /\ ListBefore # << >>
    /\ MovedOn(pre, call.before.heap[ListBefore[1]])
    /\ \E c \in Written :
        /\ pre.v[c] # VZero
        /\ NearPosition(c, tracker.heap[ListBefore[1]].x,
                        tracker.heap[ListBefore[1]].y)

(***************************************************************************)
(* The order of the markers                                                *)
(***************************************************************************)
\* the grid the marker k of the list is sampled on, g being the grid before
\* the marker i <= k: the patterns of the markers moved before k are in it
RECURSIVE SeenBy(_, _, _)
SeenBy(g, i, k) ==
    IF i >= k THEN g
    ELSE IF MovedOn(g, call.before.heap[ListBefore[i]])
    THEN SeenBy(RadialAround(g, tracker.heap[ListBefore[i]].x,
                             tracker.heap[ListBefore[i]].y,
                             tracker.heap[ListBefore[i]].mag), i + 1, k)
    ELSE SeenBy(g, i + 1, k)
\* the marker old, now new, was moved as the sample of the slice cells of the
\* grid g says
MovedAsSampled(g, old, new, cells) ==
    /\ new.x = DisplacedTo(old.x, call.move_factor, WindowSums(g, cells, 1)[1],
                           Len(cells), g.w)
    /\ new.y = DisplacedTo(old.y, call.move_factor, WindowSums(g, cells, 1)[2],
                           Len(cells), g.h)
\* the slice of the marker m on the grid g holds no vector to follow
DeferredOn(g, m) ==
    \/ Neighborhood(g, PyRound(m.x), PyRound(m.y), call.neighborhood) = << >>
    \/ WindowSums(g, Neighborhood(g, PyRound(m.x), PyRound(m.y),
                                  call.neighborhood), 1)[3] = RZero
\* what the call did with the marker id is what the grid g says: moved,
\* left where it was, or dropped from the list the call returns with
TreatedAsOn(g, id) ==
    IF MovedOn(g, call.before.heap[id])
    THEN MovedAsSampled(g, call.before.heap[id], tracker.heap[id],
                        Neighborhood(g, PyRound(call.before.heap[id].x),
                                     PyRound(call.before.heap[id].y),
                                     call.neighborhood))
    ELSE /\ tracker.heap[id] = call.before.heap[id]
         /\ DeferredOn(g, call.before.heap[id])
                => id \in Range(get_markers(tracker))
         /\ (~DeferredOn(g, call.before.heap[id]) /\ ret = Return(None))
                => id \notin Range(get_markers(tracker))
\* the markers before the k-th all have a rounded position
ReachedInLoop(k) ==
    \A i \in 1..k : Roundable(call.before.heap[ListBefore[i]])

\* C30: update_markers takes the markers in list order, and each marker is
\* sampled on the grid as the patterns of the markers moved before it in the
\* same call have left it: whether it is moved, where to, and whether it is
\* dropped is what that grid says; a marker behind one whose position cannot
\* be rounded is not reached.
C30_SamplesEarlierWrites ==
    IsUpdateMarkers =>
        \A k \in DOMAIN ListBefore :
            IF ReachedInLoop(k)
            THEN TreatedAsOn(SeenBy(pre, 1, k), ListBefore[k])
            ELSE tracker.heap[ListBefore[k]] = call.before.heap[ListBefore[k]]
\* the list the other way round
Swapped == <<ListBefore[2], ListBefore[1]>>
\* the same call on the same grid for the list in the other order
OtherOrder ==
    update_markers([call.before EXCEPT !.markers = Swapped,
                                       !.stored = Some(Swapped)],
                   pre, call.neighborhood, call.move_factor,
                   call.clear_threshold)
\* two markers: the second is not treated as the grid given to the call
\* says, and the call for the list in the other order ends with another grid
\* or other markers
C30_Witness ==
    /\ IsUpdateMarkers
    /\ ret = Return(None)
    /\ Len(ListBefore) = 2
    /\ ReachedInLoop(2)
    /\ ~TreatedAsOn(pre, ListBefore[2])
    /\ \/ OtherOrder.grid # grid
       \/ OtherOrder.t.heap # tracker.heap
       \/ Range(OtherOrder.t.markers) # Range(tracker.markers)

====
